---- MODULE Spec2Model ----
(***************************************************************************)
(* Model of app.py: the LINE webhook that files book-shipping orders in a  *)
(* Google sheet.  The sheet 寄書任務 is the sequence `sheet` (element 1 is  *)
(* sheet row 2, the row under the header), _PENDING and _OCR_SESSION are   *)
(* the per-user dictionaries, and every webhook event is handled by one    *)
(* of a small pool of request threads.                                     *)
(*                                                                         *)
(* Text is modelled as a sequence of one-character strings, so that        *)
(* normalisation, splitting, formatting and matching are computed and not  *)
(* assumed.                                                                *)
(***************************************************************************)
EXTENDS Integers, Sequences, FiniteSets, TLC

(***************************************************************************)
(* Characters and strings                                                  *)
(***************************************************************************)

Digits == {"0", "1", "2", "3", "4", "5", "6", "7", "8", "9"}

LowerLetters == {"a", "b", "c", "d", "e", "f", "g", "x", "y", "z"}

SwapCase(c) == IF c = "A" THEN "a" ELSE IF c = "a" THEN "A" ELSE c

\* str.lower() on one character
Lower(c) == IF c = "A" THEN "a" ELSE IF c = "B" THEN "b" ELSE c

\* \w minus "_" : what re.sub(r"[\s\W_]+", "", ...) keeps
IsWordChar(c) == c \in Digits \cup LowerLetters \cup {"A", "B"}

\* code point order of the characters used (digits < upper < lower)
Ord(c) ==
    CASE c = "0" -> 48 [] c = "1" -> 49 [] c = "2" -> 50 [] c = "3" -> 51
      [] c = "4" -> 52 [] c = "5" -> 53 [] c = "6" -> 54 [] c = "7" -> 55
      [] c = "8" -> 56 [] c = "9" -> 57 [] c = "A" -> 65 [] c = "B" -> 66
      [] c = "a" -> 97 [] c = "b" -> 98 [] c = "c" -> 99 [] c = "d" -> 100
      [] c = "e" -> 101 [] c = "f" -> 102 [] c = "g" -> 103
      [] c = "x" -> 120 [] c = "y" -> 121 [] c = "z" -> 122
      [] c = " " -> 32 [] c = "," -> 44 [] c = "-" -> 45 [] c = "/" -> 47
      [] c = "_" -> 95
      [] OTHER -> 0

\* Python's < on two strings
RECURSIVE StrLess(_, _)
StrLess(s, t) ==
    IF t = << >> THEN FALSE
    ELSE IF s = << >> THEN TRUE
    ELSE IF Head(s) = Head(t) THEN StrLess(Tail(s), Tail(t))
    ELSE Ord(Head(s)) < Ord(Head(t))

\* x in s, for strings
Contains(s, x) ==
    \E i \in 1..(Len(s) - Len(x) + 1) : SubSeq(s, i, i + Len(x) - 1) = x

\* re.split(r"[<delims>]+", s) keeping the non-empty pieces
RECURSIVE SplitAcc(_, _, _)
SplitAcc(s, Delims, cur) ==
    IF s = << >> THEN (IF cur = << >> THEN << >> ELSE <<cur>>)
    ELSE IF Head(s) \in Delims
         THEN (IF cur = << >> THEN << >> ELSE <<cur>>) \o SplitAcc(Tail(s), Delims, << >>)
         ELSE SplitAcc(Tail(s), Delims, Append(cur, Head(s)))

SplitOn(s, Delims) == SplitAcc(s, Delims, << >>)

\* re.findall(r"\d+", s): the maximal digit runs, in order
RECURSIVE DigitRunsAcc(_, _)
DigitRunsAcc(s, cur) ==
    IF s = << >> THEN (IF cur = << >> THEN << >> ELSE <<cur>>)
    ELSE IF Head(s) \in Digits
         THEN DigitRunsAcc(Tail(s), Append(cur, Head(s)))
         ELSE (IF cur = << >> THEN << >> ELSE <<cur>>) \o DigitRunsAcc(Tail(s), << >>)

DigitRuns(s) == DigitRunsAcc(s, << >>)

Range(s) == {s[i] : i \in 1..Len(s)}

\* list.sort(key=lambda a: len(a["norm"]), reverse=True): stable, the
\* longer norm first
RECURSIVE InsertByNormLen(_, _)
InsertByNormLen(sorted, x) ==
    IF sorted = << >> THEN <<x>>
    ELSE IF Len(Head(sorted).norm) >= Len(x.norm)
         THEN <<Head(sorted)>> \o InsertByNormLen(Tail(sorted), x)
         ELSE <<x>> \o sorted

RECURSIVE SortByNormLenAcc(_, _)
SortByNormLenAcc(s, acc) ==
    IF s = << >> THEN acc
    ELSE SortByNormLenAcc(Tail(s), InsertByNormLen(acc, Head(s)))

SortByNormLen(s) == SortByNormLenAcc(s, << >>)

(***************************************************************************)
(* Book-name matching                                                      *)
(***************************************************************************)

\* _normalize_for_match: lower-case, then drop every [\s\W_] character
RECURSIVE normalize_for_match(_)
normalize_for_match(s) ==
    IF s = << >> THEN << >>
    ELSE IF IsWordChar(Lower(Head(s)))
         THEN <<Lower(Head(s))>> \o normalize_for_match(Tail(s))
         ELSE normalize_for_match(Tail(s))

\* _split_alias_field: re.split(r"[、,;|／/ ]+", field), each non-blank part
\* kept as {"raw", "norm"}
RECURSIVE AliasRecords(_)
AliasRecords(parts) ==
    IF parts = << >> THEN << >>
    ELSE <<[raw |-> Head(parts), norm |-> normalize_for_match(Head(parts))]>>
         \o AliasRecords(Tail(parts))

split_alias_field(field) == AliasRecords(SplitOn(field, {",", ";", "|", "/", " "}))

\* 書目主檔: one row per book (書籍名稱, 模糊比對書名, 是否啟用)
BookSheet ==
    << [title |-> <<"a","b","c","d","e">>, alias |-> <<"a","b","c","d","e">>, on |-> TRUE],
       [title |-> <<"a","b","c","d","f">>, alias |-> <<"a","b","c","d","f">>, on |-> TRUE],
       [title |-> <<"x","y","z","1">>, alias |-> <<"x","y","z","1",",","x","1">>, on |-> TRUE],
       [title |-> <<"x","y","z","2">>, alias |-> << >>, on |-> TRUE],
       [title |-> <<"g","g","g","g">>, alias |-> <<"g","g","g","g">>, on |-> FALSE] >>

\* build_book_index: enabled rows with a title; the aliases of the alias
\* column, or of the title when that column is empty, longest norm first
RECURSIVE build_book_index(_)
build_book_index(data) ==
    IF data = << >> THEN << >>
    ELSE LET row == Head(data)
             aliases == IF split_alias_field(row.alias) # << >>
                        THEN split_alias_field(row.alias)
                        ELSE split_alias_field(row.title)
         IN  IF row.title = << >> \/ ~row.on
             THEN build_book_index(Tail(data))
             ELSE <<[title |-> row.title, aliases |-> SortByNormLen(aliases)]>>
                  \o build_book_index(Tail(data))

\* get_book_index: BOOK_INDEX_CACHE, built on first use and kept
get_book_index == build_book_index(BookSheet)

(***************************************************************************)
(* difflib.SequenceMatcher (no junk: the strings are far below the 200     *)
(* characters where autojunk starts)                                       *)
(***************************************************************************)

\* length of the longest block a[i..] = b[j..] starting at (i, j)
RECURSIVE CommonAt(_, _, _, _)
CommonAt(a, b, i, j) ==
    IF i > Len(a) \/ j > Len(b) \/ a[i] # b[j] THEN 0
    ELSE 1 + CommonAt(a, b, i + 1, j + 1)

SetMax(S) == CHOOSE x \in S : \A y \in S : y <= x

SetMin(S) == CHOOSE x \in S : \A y \in S : x <= y

\* find_longest_match over the whole of a and b: the longest block, and of
\* those the one starting earliest in a, and of those earliest in b
find_longest_match(a, b) ==
    LET P == (1..Len(a)) \X (1..Len(b))
        size == SetMax({CommonAt(a, b, p[1], p[2]) : p \in P} \cup {0})
        besti == SetMin({p[1] : p \in {q \in P : CommonAt(a, b, q[1], q[2]) = size}})
        bestj == SetMin({p[2] : p \in {q \in P : q[1] = besti /\ CommonAt(a, b, q[1], q[2]) = size}})
    IN  IF size = 0 THEN [i |-> 1, j |-> 1, size |-> 0]
        ELSE [i |-> besti, j |-> bestj, size |-> size]

\* get_matching_blocks: the total size of the blocks, found recursively to
\* the left and to the right of the longest one
RECURSIVE MatchTotal(_, _)
MatchTotal(a, b) ==
    IF a = << >> \/ b = << >> THEN 0
    ELSE LET m == find_longest_match(a, b)
         IN  IF m.size = 0 THEN 0
             ELSE m.size
                  + MatchTotal(SubSeq(a, 1, m.i - 1), SubSeq(b, 1, m.j - 1))
                  + MatchTotal(SubSeq(a, m.i + m.size, Len(a)),
                               SubSeq(b, m.j + m.size, Len(b)))

\* ratio() = 2.0 * matches / (len(a) + len(b)), kept as the fraction
\* <<numerator, denominator>>
Ratio(a, b) == <<2 * MatchTotal(a, b), Len(a) + Len(b)>>

\* (score, x) > (score', x'): the order heapq.nlargest sorts by
ScoredGreater(p, q) ==
    \/ p.score[1] * q.score[2] > q.score[1] * p.score[2]
    \/ /\ p.score[1] * q.score[2] = q.score[1] * p.score[2]
       /\ StrLess(q.x, p.x)

RECURSIVE InsertScored(_, _)
InsertScored(sorted, p) ==
    IF sorted = << >> THEN <<p>>
    ELSE IF ScoredGreater(p, Head(sorted))
         THEN <<p>> \o sorted
         ELSE <<Head(sorted)>> \o InsertScored(Tail(sorted), p)

RECURSIVE SortScored(_, _)
SortScored(s, acc) ==
    IF s = << >> THEN acc ELSE SortScored(Tail(s), InsertScored(acc, Head(s)))

RECURSIVE ScoreAll(_, _)
ScoreAll(word, possibilities) ==
    IF possibilities = << >> THEN << >>
    ELSE LET x == Head(possibilities)
             r == Ratio(x, word)
         \* ratio >= cutoff for cutoff = 0.8
         IN  (IF r[2] > 0 /\ 10 * r[1] >= 8 * r[2] THEN <<[score |-> r, x |-> x]>> ELSE << >>)
             \o ScoreAll(word, Tail(possibilities))

Take(s, n) == SubSeq(s, 1, IF Len(s) < n THEN Len(s) ELSE n)

\* difflib.get_close_matches(word, possibilities, n=5, cutoff=0.8)
get_close_matches(word, possibilities) ==
    LET best == Take(SortScored(ScoreAll(word, possibilities), << >>), 5)
    IN  [k \in 1..Len(best) |-> best[k].x]

(***************************************************************************)
(* resolve_book_name                                                       *)
(***************************************************************************)

RECURSIVE FlattenAliases(_)
FlattenAliases(books) ==
    IF books = << >> THEN << >>
    ELSE [k \in 1..Len(Head(books).aliases) |->
            [title |-> Head(books).title, norm |-> Head(books).aliases[k].norm]]
         \o FlattenAliases(Tail(books))

\* step 1: the first (book, alias) whose norm equals the input
ExactMatch(books, src_norm) ==
    LET flat == FlattenAliases(books)
        hits == {k \in 1..Len(flat) : flat[k].norm = src_norm}
    IN  IF hits = {} THEN << >> ELSE flat[SetMin(hits)].title

\* step 2: the books one of whose aliases has a digit run of the input
SharesDigitRun(b, digits) ==
    \E k \in 1..Len(b.aliases) :
        Range(DigitRuns(b.aliases[k].norm)) \cap Range(digits) # {}

RECURSIVE NarrowBooks(_, _)
NarrowBooks(books, digits) ==
    IF books = << >> THEN << >>
    ELSE (IF SharesDigitRun(Head(books), digits) THEN <<Head(books)>> ELSE << >>)
         \o NarrowBooks(Tail(books), digits)

\* step 3: the first (book, alias) with len(norm) >= 4 and norm in input
ContainMatch(books, src_norm) ==
    LET flat == FlattenAliases(books)
        hits == {k \in 1..Len(flat) :
                    Len(flat[k].norm) >= 4 /\ Contains(src_norm, flat[k].norm)}
    IN  IF hits = {} THEN << >> ELSE flat[SetMin(hits)].title

\* re.match(r"^[a-z]\d$", norm)
IsLetterDigit(norm) ==
    Len(norm) = 2 /\ norm[1] \in LowerLetters /\ norm[2] \in Digits

\* step 4: the aliases that take part in the fuzzy comparison
RECURSIVE FuzzyUniverse(_)
FuzzyUniverse(flat) ==
    IF flat = << >> THEN << >>
    ELSE LET norm == Head(flat).norm
         IN  (IF norm = << >> \/ (Len(norm) < 3 /\ ~IsLetterDigit(norm))
              THEN << >> ELSE <<Head(flat)>>)
             \o FuzzyUniverse(Tail(flat))

\* reverse_map[norm]: the title of the last alias with that norm
ReverseMap(universe, m) ==
    universe[SetMax({k \in 1..Len(universe) : universe[k].norm = m})].title

RECURSIVE FormalTitles(_, _, _)
FormalTitles(matches, universe, formal) ==
    IF matches = << >> THEN formal
    ELSE LET fm == ReverseMap(universe, Head(matches))
         IN  FormalTitles(Tail(matches), universe,
                          IF fm # << >> /\ fm \notin Range(formal)
                          THEN Append(formal, fm) ELSE formal)

NotFound == [bk |-> << >>, kind |-> "notfound", extra |-> << >>]

\* resolve_book_name, its last step: one title, or the candidates
resolve_formal(formal) ==
    IF Len(formal) = 1 THEN [bk |-> formal[1], kind |-> "fuzzy", extra |-> << >>]
    ELSE [bk |-> << >>, kind |-> "ambiguous", extra |-> formal]

\* step 4, given the close matches
resolve_matches(matches, universe) ==
    IF matches = << >> THEN NotFound
    ELSE resolve_formal(FormalTitles(matches, universe, << >>))

\* step 4, given the aliases that take part
resolve_fuzzy(universe, src_norm) ==
    resolve_matches(
        get_close_matches(src_norm, [k \in 1..Len(universe) |-> universe[k].norm]),
        universe)

\* steps 3 and 4, given the books left after step 2
resolve_narrowed(narrowed_books, src_norm, digits) ==
    IF digits # << >> /\ narrowed_books = << >> THEN NotFound
    ELSE IF ContainMatch(narrowed_books, src_norm) # << >>
    THEN [bk |-> ContainMatch(narrowed_books, src_norm), kind |-> "contain", extra |-> << >>]
    ELSE resolve_fuzzy(FuzzyUniverse(FlattenAliases(narrowed_books)), src_norm)

\* steps 1 to 4, given the normalised input and its digit runs
resolve_normalized(books, src_norm, digits) ==
    IF src_norm = << >> THEN NotFound
    ELSE IF ExactMatch(books, src_norm) # << >>
    THEN [bk |-> ExactMatch(books, src_norm), kind |-> "exact", extra |-> << >>]
    ELSE resolve_narrowed(IF digits # << >> THEN NarrowBooks(books, digits) ELSE books,
                          src_norm, digits)

\* resolve_book_name(user_input) against the book index `books`
resolve_in(books, user_input) ==
    resolve_normalized(books, normalize_for_match(user_input), DigitRuns(user_input))

\* the book-name texts the messages of the model carry
KnownTokens ==
    { <<"a","b","c","d","e">>, <<"A","b","c","d","e">>, <<"a","b","c","d">>,
      <<"x","y","z","1">>, <<"x","1">>, <<"z","z","z">> }

\* resolve_book_name on those texts, computed once
ResolveTable == [t \in KnownTokens |-> resolve_in(get_book_index, t)]

resolve_book_name(user_input) == ResolveTable[user_input]

(***************************************************************************)
(* Postal codes                                                            *)
(***************************************************************************)

\* 郵遞區號參照表: (address prefix, postal code)
ZipSheet ==
    << [prefix |-> <<"c">>, zip |-> <<"1","0","0">>],
       [prefix |-> <<"c","d">>, zip |-> <<"1","0","1">>],
       [prefix |-> <<"e">>, zip |-> <<"9","9">>] >>

\* InsertByPrefixLen that keeps the order of the sheet
InsertInSheetOrder(sorted, x) == Append(sorted, x)

RECURSIVE InsertByPrefixLen(_, _)
InsertByPrefixLen(sorted, x) ==
    IF sorted = << >> THEN <<x>>
    ELSE IF Len(Head(sorted).prefix) >= Len(x.prefix)
         THEN <<Head(sorted)>> \o InsertByPrefixLen(Tail(sorted), x)
         ELSE <<x>> \o sorted

RECURSIVE ZipPairs(_, _)
ZipPairs(rows, acc) ==
    IF rows = << >> THEN acc
    ELSE ZipPairs(Tail(rows),
                  IF /\ Head(rows).prefix # << >>
                     /\ Len(Head(rows).zip) \in {3, 5}
                     /\ \A k \in 1..Len(Head(rows).zip) : Head(rows).zip[k] \in Digits
                  THEN InsertByPrefixLen(acc, Head(rows)) ELSE acc)

VARIABLES
    zip_sheet,    \* 郵遞區號參照表 below the header (`rows`); `at` is history:
                  \* the time of its last edit, -1 for none
    zip_cache,    \* _zip_cache
    book_cache    \* BOOK_INDEX_CACHE once loaded: the index get_book_index returns

\* _zip_cache = None
NoCache == [loaded |-> FALSE]

\* _load_zipref: the cached pairs; without a cache, the valid pairs of the
\* sheet, longest prefix first
load_zipref ==
    IF zip_cache # NoCache THEN zip_cache.pairs ELSE ZipPairs(zip_sheet.rows, << >>)

\* the loop of lookup_zip: the code of the first pair whose prefix is in
\* the address
lookup_in(pairs, address) ==
    LET hits == {k \in 1..Len(pairs) : Contains(address, pairs[k].prefix)}
    IN  IF address = << >> \/ hits = {} THEN << >> ELSE pairs[SetMin(hits)].zip

lookup_zip(address) == lookup_in(load_zipref, address)

(***************************************************************************)
(* Record identifiers                                                      *)
(***************************************************************************)

DigitChar(d) ==
    CASE d = 0 -> "0" [] d = 1 -> "1" [] d = 2 -> "2" [] d = 3 -> "3"
      [] d = 4 -> "4" [] d = 5 -> "5" [] d = 6 -> "6" [] d = 7 -> "7"
      [] d = 8 -> "8" [] d = 9 -> "9"

\* str(n) for n >= 0
RECURSIVE Decimal(_)
Decimal(n) ==
    IF n < 10 THEN <<DigitChar(n)>>
    ELSE Append(Decimal(n \div 10), DigitChar(n % 10))

\* int(s) for a digit string
RECURSIVE ToInt(_)
ToInt(s) ==
    IF s = << >> THEN 0
    ELSE 10 * ToInt(SubSeq(s, 1, Len(s) - 1)) + (Ord(s[Len(s)]) - 48)

\* f"{n:04d}": at least four digits, zero padded
RECURSIVE ZeroPad4(_)
ZeroPad4(ds) == IF Len(ds) >= 4 THEN ds ELSE ZeroPad4(<<"0">> \o ds)

\* f"R{n:04d}"
FormatRid(n) == <<"R">> \o ZeroPad4(Decimal(n))

\* re.fullmatch(r"R(\d{4})", v) / re.fullmatch(r"R\d{4}", v)
IsRid(v) ==
    Len(v) = 5 /\ v[1] = "R" /\ \A k \in 2..5 : v[k] \in Digits

\* _gen_next_record_id: one more than the largest R#### of column A
gen_next_record_id(rows) ==
    LET nums == {ToInt(SubSeq(rows[k].rid, 2, 5)) : k \in {i \in 1..Len(rows) : IsRid(rows[i].rid)}}
        max_no == SetMax(nums \cup {0})
    IN  FormatRid(max_no + 1)

(***************************************************************************)
(* Field validation of #寄書                                               *)
(***************************************************************************)

\* normalize_phone: the digits of s when they are 10 and start with 09
\* (<< >> stands for None)
RECURSIVE OnlyDigits(_)
OnlyDigits(s) ==
    IF s = << >> THEN << >>
    ELSE (IF Head(s) \in Digits THEN <<Head(s)>> ELSE << >>) \o OnlyDigits(Tail(s))

normalize_phone(s) ==
    LET digits == OnlyDigits(s)
    IN  IF Len(digits) = 10 /\ digits[1] = "0" /\ digits[2] = "9" THEN digits ELSE << >>

RECURSIVE LowerStr(_)
LowerStr(s) == IF s = << >> THEN << >> ELSE <<Lower(Head(s))>> \o LowerStr(Tail(s))

\* detect_delivery_method: the convenience-store keyword found in the
\* text, "" for None
detect_delivery_method(text) ==
    LET t == LowerStr(text)
    IN  IF \/ Contains(t, <<"7", "-", "1", "1">>)
           \/ Contains(t, <<"7", "/", "1", "1">>)
           \/ Contains(t, <<"7", "1", "1">>) THEN "7-11"
        ELSE IF Contains(t, <<"f", "a", "m", "i", "l", "y">>) THEN "FamilyMart"
        ELSE IF \/ Contains(t, <<"h", "i", "-", "l", "i", "f", "e">>)
                \/ Contains(t, <<"h", "i", "l", "i", "f", "e">>) THEN "HiLife"
        ELSE IF Contains(t, <<"o", "k">>) THEN "OK"
        ELSE ""

\* _parse_new_order_text on the fields of the message: the draft order and
\* the list of missing or invalid fields
parse_new_order_text(body) ==
    LET phone == normalize_phone(body.phone)
        address == SelectSeq(body.address, LAMBDA c : c # " ")
        detected == detect_delivery_method(body.note \o <<" ">> \o address)
        delivery == IF detected = "" /\ address # << >> THEN "SelfDeliver" ELSE detected
        errors ==
            (IF body.name = << >> THEN <<"name">> ELSE << >>)
            \o (IF phone = << >> THEN <<"phone">> ELSE << >>)
            \o (IF body.book_raw = << >> THEN <<"book">> ELSE << >>)
            \o (IF delivery \notin {"7-11", "FamilyMart", "OK", "HiLife"} /\ address = << >>
                THEN <<"address">> ELSE << >>)
    IN  [parsed |-> [name |-> body.name, phone |-> phone, address |-> address,
                     book_raw |-> body.book_raw,
                     biz_note |-> IF body.label = << >> THEN body.note
                                  ELSE body.label \o <<":">> \o body.note,
                     delivery |-> delivery],
         errors |-> errors]

\* _BOOK_SPLIT_RE = [、，,／/\s\t]+
BookDelims == {",", "/", " "}

\* the resolver's answers for the tokens of the book list, in order
RECURSIVE ResolveAll(_)
ResolveAll(raw_list) ==
    IF raw_list = << >> THEN << >>
    ELSE <<resolve_book_name(Head(raw_list))>> \o ResolveAll(Tail(raw_list))

Reverse(s) == [k \in 1..Len(s) |-> s[Len(s) + 1 - k]]

(***************************************************************************)
(* State                                                                   *)
(***************************************************************************)

\* how many webhook events a behaviour delivers
MaxEvents == 3

\* how many events are handled at the same time
MaxInflight == 2

\* how often the clock advances
MaxTicks == 1

\* OCR_SESSION_TTL_MIN, in minutes (the unit of `now`)
OCR_SESSION_TTL_MIN == 10

\* QUERY_DAYS
QUERY_DAYS == 30

Users == {"u1", "u2"}

\* profile.display_name of a user
display_name(u) == IF u = "u1" THEN "Amy" ELSE "Bob"

VARIABLES
    sheet,        \* 寄書任務 below the header: sheet[1] is sheet row 2
    stock,        \* 入庫明細 below the header
    pending,      \* _PENDING; `ev`, `over` and `lines` of an entry are
                  \* history: the event that stored it, whether it replaced
                  \* an entry, the lines of the #入庫 it comes from
    ocr_session,  \* _OCR_SESSION; `imgs` of an entry is history: the images
                  \* taken in since it was stored
    whitelist,    \* the enabled user ids of 白名單
    now,          \* the clock, in minutes
    inflight,     \* the events whose #寄書 handler is between two sheet calls;
                  \* `src` is history: the slot entry a confirmation executes
    nevents,      \* events delivered so far
    nticks,       \* clock advances so far
    last,         \* what the last handler step did (history)
    asked         \* per user, history: "open" once a #寄書 of the user was
                  \* answered with candidate titles, "cleared" once a command
                  \* of the user was handled after that

vars == <<sheet, stock, pending, ocr_session, whitelist, now, inflight,
          nevents, nticks, last, asked, zip_sheet, zip_cache, book_cache>>

Pending == "Pending"      \* 待處理
Shipped == "Shipped"      \* 已託運
Deleted == "Deleted"      \* 已刪除

NoPending == [type |-> "none"]

NoSession == [type |-> "none"]

\* a sheet row; `ev` and `ocr` are history: the event whose handler wrote
\* the row, and whether an OCR write has set its shipping cells and no
\* undo-shipment has cleared them since
Row(rid, dt, by, name, phone, addr, book, note, deliv, st, ev) ==
    [rid |-> rid, dt |-> dt, by |-> by, name |-> name, phone |-> phone,
     addr |-> addr, book |-> book, note |-> note, deliv |-> deliv,
     shipDate |-> << >>, track |-> << >>, handler |-> "", status |-> st, ev |-> ev,
     ocr |-> FALSE]

\* the row insertDimension creates: every cell empty
BlankRow ==
    [rid |-> << >>, dt |-> << >>, by |-> "", name |-> << >>, phone |-> << >>,
     addr |-> << >>, book |-> << >>, note |-> << >>, deliv |-> "",
     shipDate |-> << >>, track |-> << >>, handler |-> "", status |-> "", ev |-> 0,
     ocr |-> FALSE]

Phone1 == <<"0","9","1","1","1","1","1","1","1","1">>

Track1 == <<"1","2","3","4","5","6","7","8","9","0","1","2">>

\* sheets the process can find when it starts: rows earlier runs wrote
OldShipped ==
    [Row(FormatRid(2), <<-20>>, "Amy", <<"a","b">>, Phone1, <<"1","0","0","c">>,
         <<"a","b","c","d","f">>, << >>, "SelfDeliver", Shipped, -2)
     EXCEPT !.shipDate = <<-10>>, !.track = Track1, !.handler = "Bob", !.ocr = TRUE]

OldDeleted ==
    [Row(FormatRid(1), <<-30>>, "Bob", <<"b">>, Phone1, <<"1","0","0","c">>,
         <<"a","b","c","d","e">>, <<[tag |-> "deleted", at |-> -25]>>,
         "SelfDeliver", Deleted, -1)
     EXCEPT !.handler = "Bob"]

OldPending ==
    Row(FormatRid(3), <<-5>>, "Amy", <<"a">>, Phone1, <<"1","0","0","c">>,
        <<"a","b","c","d","e">>, << >>, "SelfDeliver", Pending, -3)

OldLast ==
    Row(FormatRid(9999), <<-5>>, "Amy", <<"a">>, Phone1, <<"1","0","0","c">>,
        <<"a","b","c","d","e">>, << >>, "SelfDeliver", Pending, -4)

Init ==
    /\ sheet \in { <<OldPending, OldShipped, OldDeleted>>, <<OldLast>> }
    /\ stock = << >>
    /\ pending = [u \in Users |-> NoPending]
    /\ ocr_session = [u \in Users |-> NoSession]
    /\ whitelist \in {Users, {"u1"}}
    /\ whitelist # Users => sheet = <<OldLast>>
    /\ now = 0
    /\ inflight = {}
    /\ nevents = 0
    /\ nticks = 0
    /\ last = [ev |-> 0, u |-> "", cmd |-> "", out |-> "", rid |-> << >>, books |-> << >>,
               over |-> FALSE, text |-> << >>]
    /\ asked = [u \in Users |-> "none"]
    /\ zip_sheet = [rows |-> ZipSheet, at |-> -1]
    /\ zip_cache = NoCache
    /\ book_cache = get_book_index

\* time passes.  time.time() decides nothing but the end of an OCR session
\* (the 建單日期 window of QUERY_DAYS is out of reach of a few minutes), so
\* the clock is advanced while a session is open: to the last minute of its
\* lifetime, or past it
Tick ==
    /\ nticks < MaxTicks
    /\ \E u \in Users : ocr_session[u] # NoSession
    /\ \E d \in {OCR_SESSION_TTL_MIN, OCR_SESSION_TTL_MIN + 1} : now' = now + d
    /\ nticks' = nticks + 1
    /\ UNCHANGED <<sheet, stock, pending, ocr_session, whitelist, inflight,
                   nevents, last, asked, zip_sheet, zip_cache, book_cache>>

\* _load_whitelist after its cache has run out: an administrator has
\* meanwhile disabled a user in 白名單.  (A user disabled from the start is
\* in Init; here the user has a slot or a session stored.)
Revoke ==
    /\ whitelist = Users
    /\ pending["u2"] # NoPending \/ ocr_session["u2"] # NoSession
    /\ whitelist' = {"u1"}
    /\ UNCHANGED <<sheet, stock, pending, ocr_session, now, inflight, nevents, nticks,
                   last, asked, zip_sheet, zip_cache, book_cache>>

(***************************************************************************)
(* Messages                                                                *)
(***************************************************************************)

\* bodies of #寄書: name, phone, address, book list, and one remaining line
\* (its label, << >> for a line without one, and its text)
OrderBodies ==
    { [name |-> <<"a">>, phone |-> Phone1, address |-> <<"c","d","1">>,
       book_raw |-> <<"a","b","c","d","e">>, note |-> << >>, label |-> << >>],
      [name |-> <<"a","b">>, phone |-> Phone1, address |-> <<"1","0","0","c">>,
       book_raw |-> <<"x","y","z","1",","," ","A","b","c","d","e">>, note |-> << >>, label |-> << >>],
      [name |-> <<"b">>, phone |-> Phone1, address |-> <<"c">>,
       book_raw |-> <<"a","b","c","d">>, note |-> << >>, label |-> << >>],
      [name |-> <<"b">>, phone |-> Phone1, address |-> <<"c">>,
       book_raw |-> <<"a","b","c","d","e",",","z","z","z">>, note |-> << >>, label |-> << >>],
      [name |-> <<"b">>, phone |-> <<"1","2","3">>, address |-> << >>,
       book_raw |-> <<"a","b","c","d","e">>, note |-> << >>, label |-> << >>] }

\* targets of #取消寄書 and #刪除出書: name and phone (<< >> for None)
Targets ==
    { [name |-> <<"a">>, phone |-> << >>],
      [name |-> <<"a","b">>, phone |-> << >>],
      [name |-> <<"b">>, phone |-> Phone1] }

\* _ensure_authorized with WHITELIST_MODE = enforce and no admin ids
ensure_authorized(u) == u \in whitelist

\* IsAnswer that also takes a bare number for an answer
IsAnswerOrNumber(m) == m.cmd = "text" /\ m.text \in {"Y", "N", "YES", "OK", "1"}

\* text.strip().upper() in ("Y", "N", "YES", "OK")
IsAnswer(m) == m.cmd = "text" /\ m.text \in {"Y", "N", "YES", "OK"}

\* _handle_pending_answer returns True: the slot is taken and the text is
\* one of the answers
AnswersPending(u, m) == pending[u] # NoPending /\ IsAnswer(m)

\* the event reaches the command dispatch of handle_text_message
Dispatched(u, m) ==
    /\ m.cmd # "myid"
    /\ ~AnswersPending(u, m)
    /\ ensure_authorized(u)

\* the commands handle_text_message dispatches on
FullCommands == {"myid", "tidy", "order", "query", "cancel", "unship", "shipocr", "stockin"}

\* the handler of event `ev` of user u returns: the history is brought up
\* to date
DoneText(ev, u, cmd, out, rid, books, text) ==
    /\ last' = [ev |-> ev, u |-> u, cmd |-> cmd, out |-> out, rid |-> rid, books |-> books,
                over |-> cmd = "answer" /\ pending[u] # NoPending /\ pending[u].over,
                text |-> text]
    /\ asked' = [asked EXCEPT ![u] =
                   IF cmd = "order" /\ out = "ambiguous" THEN "open"
                   ELSE IF @ = "open" /\ cmd \in FullCommands THEN "cleared"
                   ELSE @]

Done(ev, u, cmd, out, rid, books) == DoneText(ev, u, cmd, out, rid, books, << >>)

(***************************************************************************)
(* #寄書: _handle_new_order                                                *)
(***************************************************************************)

\* some token of the book list is ambiguous / is not found
IsAmbiguous(r) == r.bk = << >> /\ r.kind = "ambiguous" /\ r.extra # << >>

\* OrderDecision that goes on with the tokens that did resolve
OrderDecisionPartial(pe, raw_list, res) ==
    [parsed |-> pe.parsed,
     formal_list |-> [k \in 1..Len(SelectSeq(res, LAMBDA r : r.bk # << >>)) |->
                        SelectSeq(res, LAMBDA r : r.bk # << >>)[k].bk],
     out |-> IF pe.errors # << >> THEN "invalid"
             ELSE IF raw_list = << >> THEN "nobook"
             ELSE IF \E k \in 1..Len(res) : IsAmbiguous(res[k]) THEN "ambiguous"
             ELSE IF \A k \in 1..Len(res) : res[k].bk = << >> THEN "notfound"
             ELSE "ok"]

\* OrderDecision that takes the first candidate of an ambiguous token
OrderDecisionFirstCandidate(pe, raw_list, res) ==
    [parsed |-> pe.parsed,
     formal_list |-> [k \in 1..Len(res) |->
                        IF IsAmbiguous(res[k]) THEN res[k].extra[1] ELSE res[k].bk],
     out |-> IF pe.errors # << >> THEN "invalid"
             ELSE IF raw_list = << >> THEN "nobook"
             ELSE IF \E k \in 1..Len(res) : res[k].bk = << >> /\ ~IsAmbiguous(res[k])
             THEN "notfound"
             ELSE "ok"]

\* the decision of _handle_new_order, given what validation, splitting and
\* resolution returned
OrderDecision(pe, raw_list, res) ==
    [parsed |-> pe.parsed,
     formal_list |-> [k \in 1..Len(res) |-> res[k].bk],
     out |-> IF pe.errors # << >> THEN "invalid"
             ELSE IF raw_list = << >> THEN "nobook"
             ELSE IF \E k \in 1..Len(res) : IsAmbiguous(res[k]) THEN "ambiguous"
             ELSE IF \E k \in 1..Len(res) : res[k].bk = << >> THEN "notfound"
             ELSE "ok"]

OrderResolved(pe, raw_list) == OrderDecision(pe, raw_list, ResolveAll(raw_list))

OrderParsed(pe) == OrderResolved(pe, SplitOn(pe.parsed.book_raw, BookDelims))

\* the part of _handle_new_order before the sheet is touched: validation,
\* splitting of the book list, resolution of every token
OrderCheck(body) == OrderParsed(parse_new_order_text(body))

\* StartsWithZip that finds no address prefixed
NeverStartsWithZip(address) == FALSE

\* re.match(r"^\d{3}", address)
StartsWithZip(address) ==
    Len(address) >= 3 /\ \A k \in 1..3 : address[k] \in Digits

\* _build_insert_row(ws, data, who, force_rid=rid, force_book=bk)
build_insert_row(data, who_display_name, rid, bk, ev) ==
    LET z == lookup_zip(data.address)
        address == IF data.address # << >> /\ z # << >> /\ ~StartsWithZip(data.address)
                   THEN z \o data.address ELSE data.address
    IN  Row(rid, <<now>>, who_display_name, data.name, data.phone, address, bk,
            IF data.biz_note = << >> THEN << >> ELSE <<[text |-> data.biz_note]>>,
            data.delivery, Pending, ev)

\* Pop that empties the slot of every user
PopAll(u) == [v \in Users |-> NoPending]

\* _PENDING.pop(user_id, None)
Pop(u) == [pending EXCEPT ![u] = NoPending]

\* _handle_new_order up to and including _gen_next_record_id, given the
\* decision `c`.  `pop` says that the call comes from the 整理寄書
\* confirmation, which pops the slot once the call has returned.
StartChecked(u, c, cmd, pop, ev) ==
    /\ IF c.out = "ok"
       THEN /\ Cardinality(inflight) < MaxInflight
            /\ inflight' = inflight \cup
                   {[ev |-> ev, u |-> u, cmd |-> cmd, rid |-> gen_next_record_id(sheet),
                     parsed |-> c.parsed, books |-> c.formal_list,
                     todo |-> Reverse(c.formal_list), pc |-> "insert",
                     row |-> BlankRow, pop |-> pop,
                     src |-> IF pop THEN pending[u].ev ELSE 0]}
            /\ pending' = pending
            /\ Done(ev, u, cmd, "started", << >>, << >>)
       ELSE /\ inflight' = inflight
            /\ pending' = IF pop THEN Pop(u) ELSE pending
            /\ Done(ev, u, cmd, c.out, << >>, << >>)
    /\ nevents' = ev
    /\ UNCHANGED <<sheet, stock, ocr_session, whitelist, now, nticks>>

StartOrder(u, body, cmd, pop) == StartChecked(u, OrderCheck(body), cmd, pop, nevents + 1)

NewOrder(u, m) ==
    /\ Dispatched(u, m)
    /\ m.cmd = "order"
    /\ StartOrder(u, m.body, "order", FALSE)

\* the loop body of _handle_new_order, first half: the row is built and
\* insertDimension opens an empty row 2
InsertDimension(h) ==
    /\ h.pc = "insert"
    /\ sheet' = <<BlankRow>> \o sheet
    /\ inflight' = (inflight \ {h}) \cup
          {[h EXCEPT !.pc = "update",
                     !.row = build_insert_row(h.parsed, display_name(h.u), h.rid,
                                              Head(h.todo), h.ev)]}
    /\ zip_cache' = IF h.parsed.address = << >> THEN zip_cache
                    ELSE [loaded |-> TRUE, pairs |-> load_zipref]
    /\ UNCHANGED <<stock, pending, ocr_session, whitelist, now, nevents, nticks, last,
                   asked, zip_sheet, book_cache>>

\* second half: ws.update writes the row's values to A2:M2; after the last
\* book the handler replies
UpdateRow(h) ==
    /\ h.pc = "update"
    /\ sheet' = [sheet EXCEPT ![1] = h.row]
    /\ IF Len(h.todo) > 1
       THEN /\ inflight' = (inflight \ {h}) \cup
                   {[h EXCEPT !.pc = "insert", !.todo = Tail(h.todo)]}
            /\ UNCHANGED <<pending, last, asked>>
       ELSE /\ inflight' = inflight \ {h}
            /\ pending' = IF h.pop THEN Pop(h.u) ELSE pending
            /\ Done(h.ev, h.u, h.cmd, "ok", h.rid, h.books)
    /\ UNCHANGED <<stock, ocr_session, whitelist, now, nevents, nticks, zip_sheet,
                   zip_cache, book_cache>>

\* the reply a user gets when the handler of a `cmd` event ends on an
\* exception: handle_image_message catches it and replies with a code made
\* of the time; the text handlers catch nothing, the exception leaves
\* handle_text_message and no reply is sent
reply_on_exception(cmd) == IF cmd = "image" THEN "coded failure" ELSE "none"

SheetFailsAndRetries(h) ==
    /\ h.pc \in {"insert", "update"}
    /\ inflight' = (inflight \ {h}) \cup {[h EXCEPT !.pc = "insert"]}
    /\ Done(h.ev, h.u, h.cmd, "error", h.rid, h.books)
    /\ UNCHANGED <<sheet, stock, pending, ocr_session, whitelist, now, nevents, nticks,
                   zip_sheet, zip_cache, book_cache>>

\* batch_update or ws.update raises: nothing catches it in
\* _insert_row_values_no_inherit, _handle_new_order or the confirmation
\* branch that called it, so the handler ends there, before the reply and
\* before the pop of the pending slot
SheetFails(h) ==
    /\ h.pc \in {"insert", "update"}
    /\ inflight' = inflight \ {h}
    /\ Done(h.ev, h.u, h.cmd, "error", h.rid, h.books)
    /\ UNCHANGED <<sheet, stock, pending, ocr_session, whitelist, now, nevents, nticks,
                   zip_sheet, zip_cache, book_cache>>

(***************************************************************************)
(* #取消寄書: the request                                                  *)
(***************************************************************************)

PHONE_SUFFIX_MATCH == 9

Suffix(s, n) == SubSeq(s, Len(s) - n + 1, Len(s))

\* the row's 建單日期 is older than the query window
TooOld(r) == r.dt # << >> /\ r.dt[1] < now - QUERY_DAYS * 1440

\* the name / phone test shared by _find_latest_order and _handle_delete_ship
TargetMatches(r, name, phone) ==
    LET pd == OnlyDigits(phone)
        cand == OnlyDigits(r.phone)
    IN  /\ name # << >> => Contains(r.name, name)
        /\ (phone # << >> /\ Len(pd) >= PHONE_SUFFIX_MATCH) =>
              /\ Len(cand) >= PHONE_SUFFIX_MATCH
              /\ Suffix(cand, PHONE_SUFFIX_MATCH) = Suffix(pd, PHONE_SUFFIX_MATCH)

\* the sort key of a row's 建單日期; an empty cell sorts last
DateKey(r) == IF r.dt = << >> THEN -1000000 ELSE r.dt[1]

\* of the rows `cands`, the one with the newest 建單日期, the topmost on a
\* tie (sorted(..., reverse=True) is stable); 0 when there is none
Newest(rows, cands) ==
    IF cands = {} THEN 0
    ELSE LET best == SetMax({DateKey(rows[k]) : k \in cands})
         IN  SetMin({k \in cands : DateKey(rows[k]) = best})

\* _find_latest_order: index of the newest row that is not deleted, is in
\* the query window and matches the target
find_latest_order(rows, name, phone) ==
    Newest(rows, {k \in 1..Len(rows) :
                    /\ rows[k].status # Deleted
                    /\ ~TooOld(rows[k])
                    /\ TargetMatches(rows[k], name, phone)})

\* _collect_rows_by_rid: the indices of the rows of one record id, ascending
RECURSIVE IndicesFrom(_, _, _)
IndicesFrom(rows, rid, k) ==
    IF k > Len(rows) THEN << >>
    ELSE (IF rows[k].rid = rid THEN <<k>> ELSE << >>) \o IndicesFrom(rows, rid, k + 1)

collect_rows_by_rid(rows, rid) == IndicesFrom(rows, rid, 1)

\* the rows of the record that stop the request: shipped, or with a ship
\* date or tracking number
StopRows(all_rows) ==
    {j \in 1..Len(all_rows) :
        \/ sheet[all_rows[j]].status = Shipped
        \/ sheet[all_rows[j]].shipDate # << >>
        \/ sheet[all_rows[j]].track # << >>}

\* CancelDecision without the test for shipped rows
CancelDecisionNoShippedTest(u, k, rid, all_rows) ==
    [rid |-> rid, rows |-> all_rows,
     out |-> IF k = 0 THEN "notfound"
             ELSE IF (IF sheet[k].by = "" THEN "LINE" ELSE sheet[k].by) # display_name(u)
             THEN "denied"
             ELSE "asked"]

\* the decision of _handle_cancel_request for the row k it found, the
\* record id of that row and the rows of that record
CancelDecision(u, k, rid, all_rows) ==
    [rid |-> rid, rows |-> all_rows,
     out |-> IF k = 0 THEN "notfound"
             ELSE IF (IF sheet[k].by = "" THEN "LINE" ELSE sheet[k].by) # display_name(u)
             THEN "denied"
             ELSE IF StopRows(all_rows) = {} THEN "asked"
             ELSE IF sheet[all_rows[SetMin(StopRows(all_rows))]].status = Shipped
             THEN "shipped"
             ELSE "inconsistent"]

CancelFound(u, k, rid) == CancelDecision(u, k, rid, collect_rows_by_rid(sheet, rid))

CancelAt(u, k) == CancelFound(u, k, IF k = 0 THEN << >> ELSE sheet[k].rid)

\* what _handle_cancel_request decides
CancelCheck(u, target) == CancelAt(u, find_latest_order(sheet, target.name, target.phone))

\* CancelDecided that keeps the entry a taken slot holds
CancelDecidedKeepsOld(u, c) ==
    /\ pending' = IF c.out = "asked" /\ pending[u] = NoPending
                  THEN [pending EXCEPT ![u] =
                          [type |-> "cancel_order", rid |-> c.rid, rows |-> c.rows,
                           operator |-> display_name(u), ev |-> nevents + 1,
                           over |-> FALSE]]
                  ELSE pending
    /\ Done(nevents + 1, u, "cancel", c.out, c.rid, << >>)

\* the slot entry _handle_cancel_request stores, and its reply
CancelDecided(u, c) ==
    /\ pending' = IF c.out = "asked"
                  THEN [pending EXCEPT ![u] =
                          [type |-> "cancel_order", rid |-> c.rid, rows |-> c.rows,
                           operator |-> display_name(u), ev |-> nevents + 1,
                           over |-> pending[u] # NoPending]]
                  ELSE pending
    /\ Done(nevents + 1, u, "cancel", c.out, c.rid, << >>)

CancelRequest(u, m) ==
    /\ Dispatched(u, m)
    /\ m.cmd = "cancel"
    /\ CancelDecided(u, CancelCheck(u, m.target))
    /\ nevents' = nevents + 1
    /\ UNCHANGED <<sheet, stock, ocr_session, whitelist, now, inflight, nticks>>

(***************************************************************************)
(* #刪除出書: _handle_delete_ship                                          *)
(***************************************************************************)

delete_ship_row(rows, name, phone) ==
    Newest(rows, {k \in 1..Len(rows) :
                    /\ ~TooOld(rows[k])
                    /\ TargetMatches(rows[k], name, phone)
                    /\ \/ rows[k].status = Shipped
                       \/ rows[k].shipDate # << >>
                       \/ rows[k].track # << >>})

DeleteShipClearsRow(u, k) ==
    IF k = 0
    THEN /\ sheet' = sheet
         /\ Done(nevents + 1, u, "unship", "notfound", << >>, << >>)
    ELSE /\ sheet' = [sheet EXCEPT ![k] =
                [BlankRow EXCEPT !.note = <<[tag |-> "unshipped", at |-> now]>>,
                                 !.handler = display_name(u),
                                 !.status = Pending]]
         /\ Done(nevents + 1, u, "unship", "ok", sheet[k].rid, << >>)

\* the update_cell calls of _handle_delete_ship on row k (none for k = 0)
DeleteShipAt(u, k) ==
    IF k = 0
    THEN /\ sheet' = sheet
         /\ Done(nevents + 1, u, "unship", "notfound", << >>, << >>)
    ELSE /\ sheet' = [sheet EXCEPT ![k] =
                [@ EXCEPT !.note = Append(@, [tag |-> "unshipped", at |-> now]),
                          !.shipDate = << >>,
                          !.track = << >>,
                          !.handler = display_name(u),
                          !.status = Pending,
                          !.ocr = FALSE]]
         /\ Done(nevents + 1, u, "unship", "ok", sheet[k].rid, << >>)

DeleteShip(u, m) ==
    /\ Dispatched(u, m)
    /\ m.cmd = "unship"
    /\ DeleteShipAt(u, delete_ship_row(sheet, m.target.name, m.target.phone))
    /\ nevents' = nevents + 1
    /\ UNCHANGED <<stock, pending, ocr_session, whitelist, now, inflight, nticks>>

(***************************************************************************)
(* #出書 and the image that follows it                                     *)
(***************************************************************************)

\* _start_ocr_session
ShipOcr(u, m) ==
    /\ Dispatched(u, m)
    /\ m.cmd = "shipocr"
    /\ ocr_session' = [ocr_session EXCEPT ![u] =
                          [type |-> "ship", expire_ts |-> now + OCR_SESSION_TTL_MIN,
                           imgs |-> 0]]
    /\ Done(nevents + 1, u, "shipocr", "ok", << >>, << >>)
    /\ nevents' = nevents + 1
    /\ UNCHANGED <<sheet, stock, pending, whitelist, now, inflight, nticks>>

\* _has_ocr_session, without its pop of an expired entry
has_ocr_session(u) ==
    ocr_session[u] # NoSession /\ ~(now > ocr_session[u].expire_ts)

AllDigits(s) == \A k \in 1..Len(s) : s[k] \in Digits

\* re.finditer(r"R\d{4}", ln): the matches from position i on
RECURSIVE FindRids(_, _)
FindRids(ln, i) ==
    IF i + 4 > Len(ln) THEN << >>
    ELSE IF ln[i] = "R" /\ AllDigits(SubSeq(ln, i + 1, i + 4))
         THEN <<SubSeq(ln, i, i + 4)>> \o FindRids(ln, i + 5)
         ELSE FindRids(ln, i + 1)

\* re.finditer(r"\d{12}", ln): the matches from position i on
RECURSIVE FindNums(_, _)
FindNums(ln, i) ==
    IF i + 11 > Len(ln) THEN << >>
    ELSE IF AllDigits(SubSeq(ln, i, i + 11))
         THEN <<SubSeq(ln, i, i + 11)>> \o FindNums(ln, i + 12)
         ELSE FindNums(ln, i + 1)

\* the (token, line index) occurrences of the lines from line i on
RECURSIVE Occurrences(_, _, _)
Occurrences(lines, i, wantRid) ==
    IF i > Len(lines) THEN << >>
    ELSE LET found == IF wantRid THEN FindRids(lines[i], 1) ELSE FindNums(lines[i], 1)
         IN  [k \in 1..Len(found) |-> <<found[k], i - 1>>]
             \o Occurrences(lines, i + 1, wantRid)

Abs(x) == IF x < 0 THEN -x ELSE x

\* Choose that does not look at the numbers already used
RECURSIVE ChooseIgnoresUsed(_, _, _, _, _)
ChooseIgnoresUsed(nums, used, li, chosen, best_dist) ==
    IF nums = << >> THEN chosen
    ELSE LET c == Head(nums)
             d == Abs(c[2] - li)
         IN  IF d < best_dist
             THEN ChooseIgnoresUsed(Tail(nums), used, li, c, d)
             ELSE ChooseIgnoresUsed(Tail(nums), used, li, chosen, best_dist)

\* the inner loop of _pair_ids_with_numbers: the unused number nearest to
\* line li, the first one on a tie; << >> when none is nearer than 999
RECURSIVE Choose(_, _, _, _, _)
Choose(nums, used, li, chosen, best_dist) ==
    IF nums = << >> THEN chosen
    ELSE LET c == Head(nums)
             d == Abs(c[2] - li)
         IN  IF c \notin used /\ d < best_dist
             THEN Choose(Tail(nums), used, li, c, d)
             ELSE Choose(Tail(nums), used, li, chosen, best_dist)

\* the outer loop of _pair_ids_with_numbers; `picks` is history: the
\* (number, line) chosen for each identifier, << >> for none
RECURSIVE PairLoop(_, _, _, _, _, _)
PairLoop(rids, nums, used, pairs, leftovers, picks) ==
    IF rids = << >>
    THEN [pairs |-> pairs, used |-> used, leftovers |-> leftovers, picks |-> picks]
    ELSE LET chosen == Choose(nums, used, Head(rids)[2], << >>, 999)
         IN  IF chosen # << >>
             THEN PairLoop(Tail(rids), nums, used \cup {chosen},
                           Append(pairs, <<Head(rids)[1], chosen[1]>>), leftovers,
                           Append(picks, chosen))
             ELSE PairLoop(Tail(rids), nums, used, pairs,
                           Append(leftovers, [rid |-> Head(rids)[1]]),
                           Append(picks, << >>))

\* _pair_ids_with_numbers on the non-empty lines of the OCR text
pair_ids_with_numbers(lines) ==
    LET rids == Occurrences(lines, 1, TRUE)
        nums == Occurrences(lines, 1, FALSE)
        p == PairLoop(rids, nums, {}, << >>, << >>, << >>)
        unused == SelectSeq(nums, LAMBDA c : c \notin p.used)
    IN  IF lines = << >>
        THEN [pairs |-> << >>, leftovers |-> <<[note |-> "no text"]>>, picks |-> << >>]
        ELSE [pairs |-> p.pairs,
              leftovers |-> p.leftovers \o [k \in 1..Len(unused) |-> [num |-> unused[k][1]]],
              picks |-> p.picks]

\* id2rows.get(rid, []) of _write_ocr_results: the numbers of the rows that
\* hold rid in the rows get_all_values returned
id2rows(rows, rid) ==
    SelectSeq([k \in 1..Len(rows) |-> k],
              LAMBDA k : IsRid(rows[k].rid) /\ rows[k].rid = rid)

\* the updates _write_ocr_results goes through: per pair, per row number
RECURSIVE OcrUpdates(_, _)
OcrUpdates(rows, pairs) ==
    IF pairs = << >> THEN << >>
    ELSE [k \in 1..Len(id2rows(rows, Head(pairs)[1])) |->
            [row |-> id2rows(rows, Head(pairs)[1])[k], no |-> Head(pairs)[2]]]
         \o OcrUpdates(rows, Tail(pairs))

\* the four update_cell calls of each update, by row number
RECURSIVE ShipRows(_, _, _)
ShipRows(rows, updates, uploader) ==
    IF updates = << >> THEN rows
    ELSE ShipRows([rows EXCEPT ![Head(updates).row] =
                      [@ EXCEPT !.track = Head(updates).no, !.shipDate = <<now>>,
                                !.handler = uploader, !.status = Shipped,
                                !.ocr = TRUE]],
                  Tail(updates), uploader)

Rid1 == FormatRid(1)

Rid3 == FormatRid(3)

\* what the OCR service may read from an image, as stripped non-empty lines
OcrResults ==
    { [ok |-> TRUE, lines |-> <<Rid3, Track1>>],
      [ok |-> TRUE, lines |-> <<Rid1 \o <<" ">> \o Track1>>],
      [ok |-> TRUE, lines |-> << <<"a","b","c">> >>],
      [ok |-> FALSE, lines |-> << >>] }

\* handle_image_message up to and including get_all_values of
\* _write_ocr_results: the pairs, and the updates planned from the rows
\* read.  `ocr` is what the OCR service returns: its text, or not ok when
\* the download or the service raises.  (The candidate list that
\* _ensure_authorized keeps is not part of the model.)
Image(u, ocr) ==
    /\ IF ~ensure_authorized(u)
       THEN /\ UNCHANGED <<ocr_session, inflight>>
            /\ Done(nevents + 1, u, "image", "unauthorized", << >>, << >>)
       ELSE IF ~has_ocr_session(u)
       THEN /\ ocr_session' = [ocr_session EXCEPT ![u] = NoSession]
            /\ inflight' = inflight
            /\ Done(nevents + 1, u, "image", "nosession", << >>, << >>)
       ELSE /\ Cardinality(inflight) < MaxInflight
            /\ ocr_session' = [ocr_session EXCEPT ![u].imgs = @ + 1]
            /\ \E pairs \in {IF ocr.ok THEN pair_ids_with_numbers(ocr.lines).pairs
                              ELSE << >>} :
                  inflight' = inflight \cup
                     {[ev |-> nevents + 1, u |-> u, cmd |-> "image", rid |-> << >>,
                       parsed |-> [text |-> ocr.lines, pairs |-> pairs],
                       books |-> << >>, todo |-> OcrUpdates(sheet, pairs),
                       pc |-> "ship", row |-> BlankRow, pop |-> FALSE, src |-> 0]}
            /\ DoneText(nevents + 1, u, "image", IF ocr.ok THEN "read" ELSE "error",
                        << >>, << >>, ocr.lines)
    /\ nevents' = nevents + 1
    /\ UNCHANGED <<sheet, stock, pending, whitelist, now, nticks>>

\* the rest of the handler: the update_cell calls of _write_ocr_results by
\* the row numbers read before, the reply, and _clear_ocr_session in the
\* finally clause
ShipWrite(h) ==
    /\ h.pc = "ship"
    /\ sheet' = ShipRows(sheet, h.todo, display_name(h.u))
    /\ ocr_session' = [ocr_session EXCEPT ![h.u] = NoSession]
    /\ inflight' = inflight \ {h}
    /\ DoneText(h.ev, h.u, "image", IF h.todo = << >> THEN "closed" ELSE "shipped",
                << >>, << >>, h.parsed.text)
    /\ UNCHANGED <<stock, pending, whitelist, now, nevents, nticks, zip_sheet,
                   zip_cache, book_cache>>

(***************************************************************************)
(* #買書 / #入庫                                                           *)
(***************************************************************************)

\* bodies of #入庫: per line the title text and the quantity read from it
StockBodies ==
    { << [title |-> <<"a","b","c","d","e">>, qty |-> 2],
         [title |-> <<"x","1">>, qty |-> 1],
         [title |-> <<"A","b","c","d","e">>, qty |-> -3] >>,
      << [title |-> <<"a","b","c","d">>, qty |-> 1] >>,
      << [title |-> <<"z","z","z">>, qty |-> 1] >> }

\* _parse_stockin_text: items, errors and ambiguous lines
RECURSIVE parse_stockin_text(_, _)
parse_stockin_text(lines, acc) ==
    IF lines = << >> THEN acc
    ELSE LET r == resolve_book_name(Head(lines).title)
         IN  parse_stockin_text(Tail(lines),
               IF r.bk # << >>
               THEN [acc EXCEPT !.items = Append(@, [name |-> r.bk, qty |-> Head(lines).qty])]
               ELSE IF r.kind = "ambiguous" /\ r.extra # << >>
               THEN [acc EXCEPT !.ambiguous = Append(@, Head(lines))]
               ELSE [acc EXCEPT !.errors = Append(@, Head(lines))])

\* MergeItems without the merge
MergeItemsNone(items, merged) == merged \o items

\* the merge of equal titles: quantities added, first occurrence keeps its place
RECURSIVE MergeItems(_, _)
MergeItems(items, merged) ==
    IF items = << >> THEN merged
    ELSE LET it == Head(items)
             at == {k \in 1..Len(merged) : merged[k].name = it.name}
         IN  MergeItems(Tail(items),
               IF at = {} THEN Append(merged, it)
               ELSE [merged EXCEPT ![SetMin(at)].qty = @ + it.qty])

StockOutcome(lines, p) ==
    IF p.ambiguous # << >> THEN "ambiguous"
    ELSE IF p.errors # << >> \/ lines = << >> THEN "notfound"
    ELSE IF p.items = << >> THEN "empty"
    ELSE "asked"

StockParsed(u, lines, p) ==
    /\ pending' = IF StockOutcome(lines, p) = "asked"
                  THEN [pending EXCEPT ![u] =
                          [type |-> "stock_in_confirm", operator |-> display_name(u),
                           items |-> MergeItems(p.items, << >>), ev |-> nevents + 1,
                           over |-> pending[u] # NoPending, lines |-> lines]]
                  ELSE pending
    /\ Done(nevents + 1, u, "stockin", StockOutcome(lines, p), << >>, << >>)

StockIn(u, m) ==
    /\ Dispatched(u, m)
    /\ m.cmd = "stockin"
    /\ StockParsed(u, m.lines,
                   parse_stockin_text(m.lines, [items |-> << >>, errors |-> << >>,
                                                ambiguous |-> << >>]))
    /\ nevents' = nevents + 1
    /\ UNCHANGED <<sheet, stock, ocr_session, whitelist, now, inflight, nticks>>

\* _write_stockin_rows
write_stockin_rows(operator, items) ==
    stock \o [k \in 1..Len(items) |->
                [date |-> now, operator |-> operator, name |-> items[k].name,
                 qty |-> items[k].qty,
                 source |-> IF items[k].qty >= 0 THEN "purchase" ELSE "adjustment"]]

(***************************************************************************)
(* #整理寄書                                                               *)
(***************************************************************************)

\* what _parse_raw_to_order can return for a message: name, phone and
\* address (<< >> for None), the titles found, the remaining note
TidyData ==
    { [name |-> <<"b">>, phone |-> Phone1, address |-> <<"c">>,
       book_list |-> << <<"a","b","c","d","e">>, <<"x","y","z","1">> >>,
       biz_note |-> << >>],
      [name |-> <<"b">>, phone |-> << >>, address |-> << >>,
       book_list |-> << <<"a","b","c","d","e">> >>, biz_note |-> << >>],
      [name |-> <<"b">>, phone |-> Phone1, address |-> << >>,
       book_list |-> << <<"a","b","c","d","e">> >>, biz_note |-> << >>] }

\* _handle整理寄書: the parsed data waits for the confirmation
Tidy(u, m) ==
    /\ Dispatched(u, m)
    /\ m.cmd = "tidy"
    /\ pending' = [pending EXCEPT ![u] =
                      [type |-> "tidy_confirm", data |-> m.data, ev |-> nevents + 1,
                       over |-> pending[u] # NoPending]]
    /\ Done(nevents + 1, u, "tidy", "asked", << >>, << >>)
    /\ nevents' = nevents + 1
    /\ UNCHANGED <<sheet, stock, ocr_session, whitelist, now, inflight, nticks>>

\* f"{value}" of a field that may be None
FStr(v) == IF v = << >> THEN <<"N","o","n","e">> ELSE v

\* "、".join(books)
RECURSIVE JoinTitles(_)
JoinTitles(books) ==
    IF books = << >> THEN << >>
    ELSE IF Len(books) = 1 THEN Head(books)
    ELSE Head(books) \o <<",">> \o JoinTitles(Tail(books))

\* the #寄書 text the confirmation builds from the stored data, as the
\* fields _parse_new_order_text reads back from it
FakeOrderBody(data) ==
    [name |-> FStr(data.name), phone |-> FStr(data.phone),
     address |-> FStr(data.address), book_raw |-> JoinTitles(data.book_list),
     note |-> data.biz_note, label |-> <<"m","e","m","o">>]

(***************************************************************************)
(* Y / N / YES / OK: _handle_pending_answer                                *)
(***************************************************************************)

AnswerNo(u, m) ==
    /\ AnswersPending(u, m)
    /\ m.text = "N"
    /\ pending' = Pop(u)
    /\ Done(nevents + 1, u, "answer", "no", << >>, << >>)
    /\ nevents' = nevents + 1
    /\ UNCHANGED <<sheet, stock, ocr_session, whitelist, now, inflight, nticks>>

\* the three update_cell calls per stored row index of a confirmed cancel
RECURSIVE DeleteRows(_, _, _)
DeleteRows(rows, idxs, operator) ==
    IF idxs = << >> THEN rows
    ELSE DeleteRows(
           IF Head(idxs) <= Len(rows)
           THEN [rows EXCEPT ![Head(idxs)] =
                   [@ EXCEPT !.note = Append(@, [tag |-> "deleted", at |-> now]),
                             !.handler = operator,
                             !.status = Deleted]]
           ELSE rows,
           Tail(idxs), operator)

AnswerCancelYes(u, m) ==
    /\ AnswersPending(u, m)
    /\ m.text # "N"
    /\ pending[u].type = "cancel_order"
    /\ sheet' = DeleteRows(sheet, pending[u].rows, pending[u].operator)
    /\ pending' = Pop(u)
    /\ Done(nevents + 1, u, "answer", "cancelled", pending[u].rid, << >>)
    /\ nevents' = nevents + 1
    /\ UNCHANGED <<stock, ocr_session, whitelist, now, inflight, nticks>>

\* an update_cell of the confirmed cancel raises after n of the stored rows
\* were written: the handler ends there, the slot stays
AnswerCancelFails(u, m) ==
    /\ AnswersPending(u, m)
    /\ m.text # "N"
    /\ pending[u].type = "cancel_order"
    /\ \E n \in 0..(Len(pending[u].rows) - 1) :
          sheet' = DeleteRows(sheet, SubSeq(pending[u].rows, 1, n), pending[u].operator)
    /\ Done(nevents + 1, u, "answer", "error", pending[u].rid, << >>)
    /\ nevents' = nevents + 1
    /\ UNCHANGED <<stock, pending, ocr_session, whitelist, now, inflight, nticks>>

AnswerStockYes(u, m) ==
    /\ AnswersPending(u, m)
    /\ m.text # "N"
    /\ pending[u].type = "stock_in_confirm"
    /\ stock' = write_stockin_rows(pending[u].operator, pending[u].items)
    /\ pending' = Pop(u)
    /\ Done(nevents + 1, u, "answer", "stocked", << >>, << >>)
    /\ nevents' = nevents + 1
    /\ UNCHANGED <<sheet, ocr_session, whitelist, now, inflight, nticks>>

AnswerTidyYes(u, m) ==
    /\ AnswersPending(u, m)
    /\ m.text # "N"
    /\ pending[u].type = "tidy_confirm"
    /\ StartOrder(u, FakeOrderBody(pending[u].data), "answer", TRUE)

(***************************************************************************)
(* Events without effect on sheet or slots                                 *)
(***************************************************************************)

\* #我的ID, answered before the whitelist is looked at
MyId(u, m) ==
    /\ m.cmd = "myid"
    /\ Done(nevents + 1, u, "myid", "ok", << >>, << >>)
    /\ nevents' = nevents + 1
    /\ UNCHANGED <<sheet, stock, pending, ocr_session, whitelist, now, inflight, nticks>>

\* _ensure_authorized refuses the text
Unauthorized(u, m) ==
    /\ m.cmd # "myid"
    /\ ~AnswersPending(u, m)
    /\ ~ensure_authorized(u)
    /\ Done(nevents + 1, u, m.cmd, "unauthorized", << >>, << >>)
    /\ nevents' = nevents + 1
    /\ UNCHANGED <<sheet, stock, pending, ocr_session, whitelist, now, inflight, nticks>>

\* #查寄書 only reads; a text that is no command falls through the dispatch
QueryOrOther(u, m) ==
    /\ Dispatched(u, m)
    /\ m.cmd \in {"query", "text"}
    /\ Done(nevents + 1, u, IF m.cmd = "text" THEN m.text ELSE m.cmd, "none", << >>, << >>)
    /\ nevents' = nevents + 1
    /\ UNCHANGED <<sheet, stock, pending, ocr_session, whitelist, now, inflight, nticks>>

\* the text messages a user may send
Messages ==
    {[cmd |-> "myid"]}
    \cup {[cmd |-> "order", body |-> b] : b \in OrderBodies}
    \cup {[cmd |-> "query"]}
    \cup {[cmd |-> "cancel", target |-> g] : g \in Targets}
    \cup {[cmd |-> "unship", target |-> g] : g \in Targets}
    \cup {[cmd |-> "shipocr"]}
    \cup {[cmd |-> "stockin", lines |-> b] : b \in StockBodies}
    \cup {[cmd |-> "tidy", data |-> d] : d \in TidyData}
    \cup {[cmd |-> "text", text |-> x] : x \in {"Y", "YES", "OK", "N", "1"}}

(***************************************************************************)
(* The system                                                              *)
(***************************************************************************)

handle_text_message(u, m) ==
    \/ MyId(u, m)
    \/ AnswerNo(u, m)
    \/ AnswerCancelYes(u, m)
    \/ AnswerCancelFails(u, m)
    \/ AnswerStockYes(u, m)
    \/ AnswerTidyYes(u, m)
    \/ Unauthorized(u, m)
    \/ Tidy(u, m)
    \/ NewOrder(u, m)
    \/ QueryOrOther(u, m)
    \/ CancelRequest(u, m)
    \/ DeleteShip(u, m)
    \/ ShipOcr(u, m)
    \/ StockIn(u, m)

TextEvent ==
    /\ nevents < MaxEvents
    /\ \E u \in Users : \E m \in Messages : handle_text_message(u, m)
    /\ UNCHANGED <<zip_sheet, zip_cache, book_cache>>

ImageEvent ==
    /\ nevents < MaxEvents
    /\ \E u \in Users : \E ocr \in OcrResults : Image(u, ocr)
    /\ UNCHANGED <<zip_sheet, zip_cache, book_cache>>

SheetCall ==
    \E h \in inflight : InsertDimension(h) \/ UpdateRow(h) \/ SheetFails(h) \/ ShipWrite(h)

Next == Tick \/ Revoke \/ TextEvent \/ ImageEvent \/ SheetCall

Spec == Init /\ [][Next]_vars

(***************************************************************************)
(* _pair_ids_with_numbers over every text of a bounded set: one user has   *)
(* sent #出書 and now sends one image                                      *)
(***************************************************************************)

MaxLines == 4

\* the stripped non-empty lines an OCR text is made of
PairLines ==
    { Rid1, Rid3, Track1, <<"9","8","7","6","5","4","3","2","1","0","9","8">>,
      Rid1 \o <<" ">> \o Rid3, Track1 \o <<" ">> \o Track1, <<"a","b","c">> }

PairInit ==
    /\ sheet = <<OldPending, OldShipped, OldDeleted>>
    /\ stock = << >>
    /\ pending = [u \in Users |-> NoPending]
    /\ ocr_session = [u \in Users |->
                         IF u = "u1"
                         THEN [type |-> "ship", expire_ts |-> OCR_SESSION_TTL_MIN,
                               imgs |-> 0]
                         ELSE NoSession]
    /\ whitelist = Users
    /\ now = 0
    /\ inflight = {}
    /\ nevents = 1
    /\ nticks = 0
    /\ last = [ev |-> 1, u |-> "u1", cmd |-> "shipocr", out |-> "ok", rid |-> << >>,
               books |-> << >>, over |-> FALSE, text |-> << >>]
    /\ asked = [u \in Users |-> "none"]
    /\ zip_sheet = [rows |-> ZipSheet, at |-> -1]
    /\ zip_cache = NoCache
    /\ book_cache = get_book_index

PairNext ==
    \/ /\ nevents = 1
       /\ \E n \in 0..MaxLines : \E t \in [1..n -> PairLines] :
             Image("u1", [ok |-> TRUE, lines |-> t])
       /\ UNCHANGED <<zip_sheet, zip_cache, book_cache>>
    \/ \E h \in inflight : ShipWrite(h)

PairSpec == PairInit /\ [][PairNext]_vars

(***************************************************************************)
(* lookup_zip over bounded reference tables and addresses, the reference   *)
(* sheet being edited once while the process runs                          *)
(***************************************************************************)

MaxAge == 2

\* contents of 郵遞區號參照表; "t" and "T" stand for the two forms 台 and 臺
\* of one character, the other letters for further characters
GeoTables ==
    { << [prefix |-> <<"t","p">>, zip |-> <<"1","0","0">>],
         [prefix |-> <<"t","p","z">>, zip |-> <<"1","0","0","0","1">>],
         [prefix |-> <<"k">>, zip |-> <<"9","9">>] >>,
      << [prefix |-> <<"T","p">>, zip |-> <<"1","0","0">>] >>,
      << [prefix |-> <<"p">>, zip |-> <<"2","0","0">>],
         [prefix |-> <<"z">>, zip |-> <<"3","0","0">>] >> }

\* catalogs for resolve_book_name as a function: the one of the model, one
\* with a two-digit run in an alias, and one where the alias of a title is
\* the beginning of the alias of the next
BookTables ==
    { BookSheet,
      << [title |-> <<"x","1","2">>, alias |-> <<"x","1","2">>, on |-> TRUE],
         [title |-> <<"a","b","c","d","1">>, alias |-> << >>, on |-> TRUE] >>,
      << [title |-> <<"a","b","c","d">>, alias |-> << >>, on |-> TRUE],
         [title |-> <<"a","b","c","d","e">>, alias |-> << >>, on |-> TRUE] >> }

\* texts for resolve_book_name and _normalize_for_match
BookTexts ==
    KnownTokens \cup
    { <<"x","1","-","2">>, <<"x","1","2">>, <<"x","y","z","3">>, <<"a","b","c","d","2">>,
      <<"a","b","c","d","1"," ","x">>, <<"A"," ","b","_","1">>, <<"-"," ">>,
      <<"a","b","c","d","e"," ","x">> }

\* s.strip()
RECURSIVE Strip(_)
Strip(s) ==
    IF s # << >> /\ Head(s) = " " THEN Strip(Tail(s))
    ELSE IF s # << >> /\ s[Len(s)] = " " THEN Strip(SubSeq(s, 1, Len(s) - 1))
    ELSE s

\* parse_kv_lines on the lines of the text: the keys in the order of their
\* first line, each with its values.  ";" stands for the full-width colon,
\* which is looked for first; <<"_free_">> is the key of a line without colon.
RECURSIVE parse_kv_lines(_, _)
parse_kv_lines(lines, data) ==
    IF lines = << >> THEN data
    ELSE LET ln == Strip(Head(lines))
             c == IF ";" \in Range(ln) THEN ";" ELSE ":"
             at == SetMin({i \in 1..Len(ln) : ln[i] = c})
             k == IF c \in Range(ln) THEN Strip(SubSeq(ln, 1, at - 1)) ELSE <<"_free_">>
             v == IF c \in Range(ln) THEN Strip(SubSeq(ln, at + 1, Len(ln))) ELSE ln
             hit == {i \in 1..Len(data) : data[i].k = k}
         IN  parse_kv_lines(Tail(lines),
                 IF ln = << >> \/ Head(ln) = "#" THEN data
                 ELSE IF hit = {} THEN Append(data, [k |-> k, vs |-> <<v>>])
                 ELSE [data EXCEPT ![SetMin(hit)].vs = Append(@, v)])

\* for k in list(data.keys()): if <word> in k: data.pop(k); break
\* the data without the first key that has the word in it
PopField(data, word) ==
    LET hit == {i \in 1..Len(data) : Contains(data[i].k, word)}
    IN  IF hit = {} THEN data
        ELSE SubSeq(data, 1, SetMin(hit) - 1) \o SubSeq(data, SetMin(hit) + 1, Len(data))

\* the list `others` of _parse_new_order_text: every value left in data,
\* behind its key and a full-width colon unless the line had no key
RECURSIVE others(_)
others(data) ==
    IF data = << >> THEN << >>
    ELSE [i \in 1..Len(Head(data).vs) |->
             IF Head(data).k # <<"_free_">>
             THEN Head(data).k \o <<";">> \o Head(data).vs[i]
             ELSE Head(data).vs[i]]
         \o others(Tail(data))

\* " / ".join(xs)
RECURSIVE JoinSlash(_)
JoinSlash(xs) ==
    IF xs = << >> THEN << >>
    ELSE IF Len(xs) = 1 THEN xs[1]
    ELSE xs[1] \o <<" ", "/", " ">> \o JoinSlash(Tail(xs))

\* biz_note of _parse_new_order_text(lines): name, phone, address and book
\* keys are popped in this order ("N", "P", "D", "K" stand for the words a
\* key is searched for), what is left is joined
biz_note(lines) ==
    JoinSlash(SelectSeq(
        others(PopField(PopField(PopField(PopField(parse_kv_lines(lines, << >>),
                                                   <<"N">>), <<"P">>), <<"D">>), <<"K">>)),
        LAMBDA x : Strip(x) # << >>))

\* texts of #寄書 as lines: the command line, the four fields, and more
OrderLines ==
    LET cmd == <<"#", "o">>
        four == << <<"N", ":", "a">>, <<"P", ";", "1">>, <<"D", ":", "c">>,
                   <<"K", ":", " ", "x", "y", "z", "1">> >>
    IN  { <<cmd>> \o four,
          <<cmd>> \o four \o << <<"x", " ", "y">> >>,
          <<cmd>> \o four \o << <<" ", "g", ":", " ", "z", " ">> >>,
          <<cmd>> \o four \o << <<"#", "x">> >>,
          <<cmd, <<"e">>, << >>, <<" ", " ">> >> \o four \o << <<"f", ";", "g">> >>,
          <<cmd, <<"N", "b", ";", "b">>, <<"g", ":", "1">>, <<"x">>, <<"g", ":", "2">> >>,
          <<cmd, <<"g", ":">>, <<":", "z">>, <<"P", ":", "1">>, <<"P", ":", "2">> >> }

GeoAddresses ==
    { <<"t","p","z","r">>, <<"T","p","z","r">>, <<"t","p","r">>, <<"k">>, << >> }

RefInit ==
    /\ sheet = <<OldLast>>
    /\ stock = << >>
    /\ pending = [u \in Users |-> NoPending]
    /\ ocr_session = [u \in Users |-> NoSession]
    /\ whitelist = Users
    /\ now = 0
    /\ inflight = {}
    /\ nevents = 0
    /\ nticks = 0
    /\ last = [ev |-> 0, u |-> "", cmd |-> "", out |-> "", rid |-> << >>, books |-> << >>,
               over |-> FALSE, text |-> << >>]
    /\ asked = [u \in Users |-> "none"]
    /\ zip_sheet \in {[rows |-> t, at |-> -1] : t \in GeoTables}
    /\ zip_cache = NoCache
    /\ book_cache \in {build_book_index(t) : t \in BookTables}

\* the reference data and the functions on it, one call per step; `last`
\* keeps the argument and the result
RefNext ==
    \* lookup_zip(a) as a handler calls it
    \/ \E a \in GeoAddresses :
          /\ zip_cache' = IF a = << >> THEN zip_cache
                          ELSE [loaded |-> TRUE, pairs |-> load_zipref]
          /\ DoneText(nevents, "u1", "lookup", "ok", lookup_zip(a), << >>, a)
          /\ UNCHANGED <<sheet, stock, pending, ocr_session, whitelist, now, inflight,
                         nevents, nticks, zip_sheet, book_cache>>
    \* somebody edits the reference sheet, once
    \/ /\ zip_sheet.at = -1
       /\ \E t \in GeoTables \ {zip_sheet.rows} : zip_sheet' = [rows |-> t, at |-> now]
       /\ UNCHANGED <<sheet, stock, pending, ocr_session, whitelist, now, inflight,
                      nevents, nticks, last, asked, zip_cache, book_cache>>
    \* time passes
    \/ /\ now < MaxAge
       /\ now' = now + 1
       /\ UNCHANGED <<sheet, stock, pending, ocr_session, whitelist, inflight,
                      nevents, nticks, last, asked, zip_sheet, zip_cache, book_cache>>
    \* resolve_book_name(t) against the loaded index: the kind of match, the
    \* title and the candidates
    \/ \E t \in BookTexts :
          /\ DoneText(nevents, "u1", "resolve", resolve_in(book_cache, t).kind,
                      resolve_in(book_cache, t).bk, resolve_in(book_cache, t).extra, t)
          /\ UNCHANGED <<sheet, stock, pending, ocr_session, whitelist, now, inflight,
                         nevents, nticks, zip_sheet, zip_cache, book_cache>>
    \* _normalize_for_match(t)
    \/ \E t \in BookTexts :
          /\ DoneText(nevents, "u1", "normalize", "ok", normalize_for_match(t), << >>, t)
          /\ UNCHANGED <<sheet, stock, pending, ocr_session, whitelist, now, inflight,
                         nevents, nticks, zip_sheet, zip_cache, book_cache>>
    \* the note _parse_new_order_text makes of the text
    \/ \E t \in OrderLines :
          /\ DoneText(nevents, "u1", "parse", "ok", biz_note(t), t, << >>)
          /\ UNCHANGED <<sheet, stock, pending, ocr_session, whitelist, now, inflight,
                         nevents, nticks, zip_sheet, zip_cache, book_cache>>

RefSpec == RefInit /\ [][RefNext]_vars

(***************************************************************************)
(* Properties                                                              *)
(***************************************************************************)

\* the rows of `rows` that event `ev` wrote, top to bottom
RECURSIVE RowsOfEvent(_, _)
RowsOfEvent(rows, ev) ==
    IF rows = << >> THEN << >>
    ELSE (IF Head(rows).ev = ev THEN <<Head(rows)>> ELSE << >>)
         \o RowsOfEvent(Tail(rows), ev)

\* C1: when a user answers Y / YES / OK to a pending cancellation of record
\* id r, every row of r ends Deleted and no row of another record id has its
\* status, note or handler changed, whatever was handled in between.
C1_CancelDeletesExactlyTheRecord ==
    [][\A u \in Users :
         (/\ pending[u].type = "cancel_order"
          /\ nevents' = nevents + 1
          /\ last'.u = u /\ last'.cmd = "answer" /\ last'.out = "cancelled")
         => /\ \A i \in 1..Len(sheet') :
                  sheet'[i].rid = pending[u].rid => sheet'[i].status = Deleted
            /\ \A i \in 1..Len(sheet) :
                  sheet[i].rid # pending[u].rid =>
                     /\ sheet'[i].status = sheet[i].status
                     /\ sheet'[i].note = sheet[i].note
                     /\ sheet'[i].handler = sheet[i].handler]_vars

\* C2: the status of a row changes only Pending -> Shipped, Pending ->
\* Deleted and Shipped -> Pending (and from empty to Pending while the row
\* is written): a Deleted row keeps its status, a Shipped row never becomes
\* Deleted.  Rows are only inserted at the head, so row i of a state is row
\* i + Len(sheet') - Len(sheet) of the next.
C2_StatusTransitions ==
    [][\A i \in 1..Len(sheet) :
         \/ sheet'[i + Len(sheet') - Len(sheet)].status = sheet[i].status
         \/ <<sheet[i].status, sheet'[i + Len(sheet') - Len(sheet)].status>> \in
               {<<"", Pending>>, <<Pending, Shipped>>, <<Pending, Deleted>>,
                <<Shipped, Pending>>}]_vars

\* C3: a cancel request whose target record has a Shipped row is rejected:
\* the user's slot stays as it is and no row is modified.
C3_ShippedCancelRejected ==
    [][\A u \in Users : \A g \in Targets :
         (/\ nevents' = nevents + 1 /\ last'.u = u /\ last'.cmd = "cancel"
          /\ CancelRequest(u, [cmd |-> "cancel", target |-> g])
          /\ \E i \in 1..Len(sheet) :
                /\ sheet[i].rid = CancelCheck(u, g).rid
                /\ sheet[i].status = Shipped)
         => pending'[u] = pending[u] /\ sheet' = sheet]_vars

\* C3, the case: a cancel request was just refused because of a Shipped row
C3_Witness ==
    /\ last.cmd = "cancel"
    /\ last.out = "shipped"
    /\ \E i \in 1..Len(sheet) : sheet[i].rid = last.rid /\ sheet[i].status = Shipped
    /\ pending[last.u] = NoPending

\* C4: when a create-order with k resolved titles has succeeded, the store
\* holds exactly k rows of it, all with the new record id and status
\* Pending, and top to bottom they carry the titles in the user's order;
\* also with another create-order handled concurrently.
C4_OrderRowsInOrder ==
    (last.out = "ok" /\ last.cmd \in {"order", "answer"})
    => /\ [k \in 1..Len(RowsOfEvent(sheet, last.ev)) |->
             RowsOfEvent(sheet, last.ev)[k].book] = last.books
       /\ \A k \in 1..Len(RowsOfEvent(sheet, last.ev)) :
             /\ RowsOfEvent(sheet, last.ev)[k].rid = last.rid
             /\ RowsOfEvent(sheet, last.ev)[k].status = Pending

\* C5: all rows sharing a record id were written by one create-order event.
C5_OneEventPerRecordId ==
    \A i, j \in 1..Len(sheet) :
        (sheet[i].rid # << >> /\ sheet[i].rid = sheet[j].rid) => sheet[i].ev = sheet[j].ev

\* C6: the record id generated for a new order is numerically greater than
\* every record id the store holds at that moment.
C6_NewIdGreater ==
    [][\A h \in inflight' \ inflight :
         (nevents' = nevents + 1 /\ h.pc = "insert") =>
            \A i \in 1..Len(sheet) :
               sheet[i].rid # << >> => ToInt(Tail(h.rid)) > ToInt(Tail(sheet[i].rid))]_vars

\* C7: every record id in the store is R followed by exactly four digits.
C7_FourDigitIds ==
    \A i \in 1..Len(sheet) :
        sheet[i].rid # << >> =>
           /\ Len(sheet[i].rid) = 5
           /\ sheet[i].rid[1] = "R"
           /\ \A k \in 2..5 : sheet[i].rid[k] \in Digits

\* C8: while a user's slot is occupied, a query, an undo-shipment command
\* or a text that is no answer from that user discards the pending action:
\* the slot is empty afterwards.
C8_OtherInputDiscards ==
    [][\A u \in Users :
         (/\ pending[u] # NoPending
          /\ nevents' = nevents + 1
          /\ last'.u = u /\ last'.cmd \in {"query", "unship", "1"})
         => pending'[u] = NoPending]_vars

\* C9: once a user was shown candidate titles and has sent another command
\* since, a bare "1" from that user writes no row, starts no order and
\* books no stock.
C9_StrayNumberWritesNothing ==
    [][\A u \in Users :
         (/\ asked[u] = "cleared"
          /\ nevents' = nevents + 1 /\ last'.u = u
          /\ handle_text_message(u, [cmd |-> "text", text |-> "1"]))
         => UNCHANGED <<sheet, stock, inflight>>]_vars

\* C9, the case: the "1" of such a user has just been handled
C9_Witness ==
    /\ last.cmd = "1"
    /\ asked[last.u] = "cleared"

\* the #寄書 body passes validation and one of its tokens is ambiguous
AmbiguousBody(b) ==
    /\ parse_new_order_text(b).errors = << >>
    /\ \E k \in 1..Len(SplitOn(parse_new_order_text(b).parsed.book_raw, BookDelims)) :
          IsAmbiguous(resolve_book_name(
              SplitOn(parse_new_order_text(b).parsed.book_raw, BookDelims)[k]))

RejectedBody(b) ==
    \/ parse_new_order_text(b).errors # << >>
    \/ \E k \in 1..Len(SplitOn(parse_new_order_text(b).parsed.book_raw, BookDelims)) :
          resolve_book_name(
              SplitOn(parse_new_order_text(b).parsed.book_raw, BookDelims)[k]).kind
          = "notfound"

\* C11: a create-order that fails validation or has a token that is not
\* found writes no row, starts no insertion and creates no slot; and every
\* insertion under way carries a title for each of its tokens.
C11_RejectedOrderWritesNothing ==
    [][/\ \A u \in Users : \A b \in OrderBodies :
            (/\ nevents' = nevents + 1 /\ last'.u = u /\ last'.cmd = "order"
             /\ RejectedBody(b)
             /\ NewOrder(u, [cmd |-> "order", body |-> b]))
            => UNCHANGED <<pending, sheet, stock, inflight>>
       /\ \A h \in inflight' : \A k \in 1..Len(h.books) : h.books[k] # << >>]_vars

\* C11, the case: an order was refused for a title that is not found
C11_Witness ==
    /\ last.cmd = "order"
    /\ last.out = "notfound"
    /\ inflight = {}

\* C12: when the handler of a Y / YES / OK / N reply to an occupied slot
\* has returned, the slot of that user is empty; and the handling of N
\* writes nothing to sheet or stock and starts no insertion.
C12_AnswerEmptiesSlot ==
    [][/\ (last' # last /\ last'.cmd = "answer" /\ last'.out # "started")
            => pending'[last'.u] = NoPending
       /\ \A u \in Users :
            (/\ nevents' = nevents + 1 /\ last'.u = u
             /\ pending[u] # NoPending
             /\ handle_text_message(u, [cmd |-> "text", text |-> "N"]))
            => UNCHANGED <<sheet, stock, inflight>>]_vars

\* C13: the store writes of one pending action are applied at most once,
\* however the user's affirmative replies arrive: no two handlers execute
\* the same slot entry.  (The entry is popped when its handler returns, so
\* a second execution can only start while the first is under way.)
C13_AppliedAtMostOnce ==
    \A h1, h2 \in inflight : (h1.src # 0 /\ h1.src = h2.src) => h1 = h2

\* C14: a command that asks for a confirmation puts its own action into
\* the user's slot, taken or not, and a Y / YES / OK executes the action the
\* slot holds and no other: a cancellation touches neither stock nor
\* insertions, a stock adjustment appends its rows and nothing else, an
\* order confirmation touches neither stock nor existing rows.
C14_NewestActionOnly ==
    [][\A u \in Users :
         /\ (nevents' = nevents + 1 /\ last'.u = u /\ last'.out = "asked")
              => pending'[u] # NoPending /\ pending'[u].ev = nevents'
         /\ \A x \in {"Y", "YES", "OK"} :
              (/\ nevents' = nevents + 1 /\ last'.u = u
               /\ pending[u] # NoPending
               /\ handle_text_message(u, [cmd |-> "text", text |-> x]))
              => CASE pending[u].type = "cancel_order" ->
                        UNCHANGED <<stock, inflight>>
                   [] pending[u].type = "stock_in_confirm" ->
                        /\ UNCHANGED <<sheet, inflight>>
                        /\ Len(stock') = Len(stock) + Len(pending[u].items)
                   [] pending[u].type = "tidy_confirm" ->
                        UNCHANGED <<sheet, stock>>]_vars

\* C14, the case: the action just executed had replaced an older one
C14_Witness ==
    /\ last.cmd = "answer"
    /\ last.out \in {"cancelled", "stocked", "started"}
    /\ last.over

\* C15: a step changes the slot or the OCR session of a user only when it
\* is a step of the handler of an event of that user.
C15_OtherUsersUntouched ==
    [][\A v \in Users :
         (pending'[v] # pending[v] \/ ocr_session'[v] # ocr_session[v])
         => (last' # last /\ last'.u = v)]_vars

\* C15, the case: a reply of one user was handled while the slot of the
\* other was taken
C15_Witness ==
    /\ last.cmd = "answer"
    /\ \E v \in Users \ {last.u} : pending[v] # NoPending

\* the sum of the quantities of the lines that resolve to `title`
RECURSIVE SumQty(_, _)
SumQty(lines, title) ==
    IF lines = << >> THEN 0
    ELSE (IF resolve_book_name(Head(lines).title).bk = title THEN Head(lines).qty ELSE 0)
         + SumQty(Tail(lines), title)

\* C16: a Y / YES / OK to a pending stock adjustment appends one row per
\* distinct resolved title, its quantity the sum over the lines of that
\* title; the stock table changes in no other step; and a #入庫 with a line
\* that is not found or ambiguous leaves slot and stock as they are.
C16_StockRowsPerTitle ==
    [][/\ \A u \in Users : \A x \in {"Y", "YES", "OK"} :
            (/\ nevents' = nevents + 1 /\ last'.u = u
             /\ pending[u] # NoPending /\ pending[u].type = "stock_in_confirm"
             /\ handle_text_message(u, [cmd |-> "text", text |-> x]))
            => /\ Len(stock') >= Len(stock)
               /\ SubSeq(stock', 1, Len(stock)) = stock
               /\ {stock'[k].name : k \in Len(stock) + 1..Len(stock')}
                    = {resolve_book_name(pending[u].lines[k].title).bk :
                         k \in 1..Len(pending[u].lines)}
               /\ \A j, k \in Len(stock) + 1..Len(stock') :
                     stock'[j].name = stock'[k].name => j = k
               /\ \A k \in Len(stock) + 1..Len(stock') :
                     stock'[k].qty = SumQty(pending[u].lines, stock'[k].name)
       /\ stock' # stock => (last' # last /\ last'.cmd = "answer" /\ last'.out = "stocked")
       /\ \A u \in Users : \A b \in StockBodies :
            (/\ nevents' = nevents + 1 /\ last'.u = u /\ last'.cmd = "stockin"
             /\ \E k \in 1..Len(b) : resolve_book_name(b[k].title).bk = << >>
             /\ StockIn(u, [cmd |-> "stockin", lines |-> b]))
            => UNCHANGED <<pending, stock>>]_vars

\* C16, the case: a confirmed adjustment wrote a row that sums two lines
C16_Witness ==
    /\ last.cmd = "answer"
    /\ last.out = "stocked"
    /\ \E k \in 1..Len(stock) : stock[k].qty = -1

\* the #寄書 fields of a direct command that carries the payload's values,
\* an absent value being a field left out
PayloadAsOrderBody(data) ==
    [name |-> data.name, phone |-> data.phone, address |-> data.address,
     book_raw |-> JoinTitles(data.book_list), note |-> data.biz_note,
     label |-> <<"m","e","m","o">>]

\* C17: a Y / YES / OK to a pending 整理寄書 confirmation is processed as
\* the direct #寄書 with the payload's name, phone, address, titles and
\* note: it is refused where validation refuses that command (an absent
\* field is a missing one), and where it goes on, the insertion carries
\* the payload's titles in the payload's order and the payload's fields.
C17_ConfirmedTidyAsDirectOrder ==
    [][\A u \in Users : \A x \in {"Y", "YES", "OK"} :
          (/\ nevents' = nevents + 1 /\ last'.u = u /\ last'.cmd = "answer"
           /\ pending[u] # NoPending /\ pending[u].type = "tidy_confirm"
           /\ handle_text_message(u, [cmd |-> "text", text |-> x]))
          => /\ parse_new_order_text(PayloadAsOrderBody(pending[u].data)).errors # << >>
                  => (last'.out = "invalid" /\ UNCHANGED <<sheet, stock, inflight>>)
             /\ last'.out = "started"
                  => \E h \in inflight' \ inflight :
                        /\ h.books = pending[u].data.book_list
                        /\ h.parsed.name = pending[u].data.name
                        /\ h.parsed.phone = pending[u].data.phone
                        /\ h.parsed.address = pending[u].data.address]_vars

\* the occurrence of nums that the pick c stands for, 0 for none
RECURSIVE OccOf(_, _, _)
OccOf(nums, c, m) ==
    IF c = << >> \/ m > Len(nums) THEN 0
    ELSE IF nums[m] = c THEN m
    ELSE OccOf(nums, c, m + 1)

\* pairing as the claim states it, for identifier occurrences rids, token
\* occurrences nums and occ, the token occurrence given to each identifier
\* (0 for none)
GreedyByOccurrence(rids, nums, occ, pairs) ==
    /\ \A k \in 1..Len(rids) :
          LET free == (1..Len(nums)) \ {occ[j] : j \in 1..k - 1}
          IN  IF free = {} THEN occ[k] = 0
              ELSE /\ occ[k] \in free
                   /\ \A m \in free :
                         Abs(nums[occ[k]][2] - rids[k][2]) <= Abs(nums[m][2] - rids[k][2])
    /\ \A j, k \in 1..Len(rids) : (j < k /\ occ[j] # 0) => occ[j] # occ[k]
    /\ \A i, k \in 1..Len(rids) : \A m \in 1..Len(nums) :
          (/\ i < k /\ occ[k] = m
           /\ Abs(nums[m][2] - rids[i][2]) = Abs(nums[m][2] - rids[k][2]))
          => /\ occ[i] # 0
             /\ Abs(nums[occ[i]][2] - rids[i][2]) <= Abs(nums[m][2] - rids[i][2])
    /\ pairs = [k \in 1..Len(SelectSeq([j \in 1..Len(rids) |-> j],
                                       LAMBDA j : occ[j] # 0)) |->
                  LET j == SelectSeq([i \in 1..Len(rids) |-> i],
                                     LAMBDA i : occ[i] # 0)[k]
                  IN  <<rids[j][1], nums[occ[j]][1]>>]

PairedAsClaimed(nums, rids, r) ==
    GreedyByOccurrence(rids, nums, [k \in 1..Len(rids) |-> OccOf(nums, r.picks[k], 1)],
                       r.pairs)

\* C18: the identifier occurrences are gone through in their order and each
\* is paired with a token occurrence no free occurrence is nearer than (free:
\* given to no earlier identifier), or with none when none is free; no token
\* occurrence is given twice; and a token two identifiers are equally far
\* from goes to the later one only when the earlier one got a token that
\* is no farther.
C18_NearestFreeOccurrence ==
    (last.cmd = "image" /\ last.out = "read")
    => PairedAsClaimed(Occurrences(last.text, 1, FALSE), Occurrences(last.text, 1, TRUE),
                       pair_ids_with_numbers(last.text))

IsTrackLine(ln) == Len(ln) = 12 /\ AllDigits(ln)

\* identifier, tracking token, identifier, tracking token, ... line by line
Alternating(text) ==
    /\ text # << >>
    /\ Len(text) % 2 = 0
    /\ \A k \in 1..Len(text) :
          IF k % 2 = 1 THEN IsRid(text[k]) ELSE IsTrackLine(text[k])

\* C19: for a text of alternating identifier and tracking lines the pairs
\* are each identifier with the token of the next line and nothing is left
\* over; for a text with one identifier and no tracking token there is no
\* pair and one leftover.
C19_AlternatingLinesPairUp ==
    (last.cmd = "image" /\ last.out = "read")
    => /\ Alternating(last.text)
            => /\ pair_ids_with_numbers(last.text).pairs
                    = [k \in 1..Len(last.text) \div 2 |->
                         <<last.text[2 * k - 1], last.text[2 * k]>>]
               /\ pair_ids_with_numbers(last.text).leftovers = << >>
       /\ (/\ Len(Occurrences(last.text, 1, TRUE)) = 1
           /\ Occurrences(last.text, 1, FALSE) = << >>)
            => /\ pair_ids_with_numbers(last.text).pairs = << >>
               /\ Len(pair_ids_with_numbers(last.text).leftovers) = 1

\* C19, the case: a text of two identifier lines, each followed by its
\* tracking line, has been paired
C19_Witness ==
    /\ last.cmd = "image"
    /\ last.out = "read"
    /\ Alternating(last.text)
    /\ Len(last.text) = 4

\* C20: when the handler of an image has made its writes, every row of a
\* paired record id that is in the sheet carries the pair's tracking
\* number, the current date, the acting user and Shipped, and every row of
\* a record id in no pair is as it was.
C20_ShipWriteMarksPairs ==
    [][\A h \in inflight :
         (h.pc = "ship" /\ ShipWrite(h))
         => /\ \A k \in 1..Len(h.parsed.pairs) : \A j \in 1..Len(sheet') :
                  sheet'[j].rid = h.parsed.pairs[k][1]
                  => /\ sheet'[j].track = h.parsed.pairs[k][2]
                     /\ sheet'[j].shipDate = <<now>>
                     /\ sheet'[j].handler = display_name(h.u)
                     /\ sheet'[j].status = Shipped
            /\ \A j \in 1..Len(sheet) :
                  (\A k \in 1..Len(h.parsed.pairs) :
                      sheet[j].rid # h.parsed.pairs[k][1])
                  => sheet'[j] = sheet[j]]_vars

\* C21: an image is taken in for reconciliation only when its user has a
\* session stored no longer than the session lifetime ago in which no image
\* was taken in before; every other image starts no handler work, writes
\* nothing and gets no reply.
C21_OneImagePerTrigger ==
    [][\A u \in Users : \A ocr \in OcrResults :
         (/\ nevents' = nevents + 1 /\ last'.u = u /\ last'.cmd = "image"
          /\ Image(u, ocr))
         => IF inflight' # inflight
            THEN /\ ocr_session[u] # NoSession
                 /\ now <= ocr_session[u].expire_ts
                 /\ ocr_session[u].imgs = 0
            ELSE /\ sheet' = sheet
                 /\ last'.out \in {"unauthorized", "nosession"}]_vars

\* C22: a text event other than #我的ID of a user who is not authorized when
\* it is handled writes nothing to the sheet or the stock table, starts no
\* insertion and changes no slot, a Y / YES / OK / N reply to a slot the
\* user filled while authorized included.
C22_UnauthorizedTextHasNoEffect ==
    [][\A u \in Users \ whitelist : \A m \in Messages \ {[cmd |-> "myid"]} :
         (/\ nevents' = nevents + 1 /\ last'.u = u
          /\ handle_text_message(u, m))
         => UNCHANGED <<sheet, stock, pending, inflight>>]_vars

OtherForm(address) ==
    [k \in 1..Len(address) |->
        IF address[k] = "t" THEN "T" ELSE IF address[k] = "T" THEN "t" ELSE address[k]]

\* C24: an address and the address written with the other form of the
\* variant character get the same code.
C24_VariantFormsSameCode ==
    (last.cmd = "lookup" /\ zip_cache # NoCache)
    => lookup_zip(OtherForm(last.text)) = last.rid

\* C29: a lookup made when the reference sheet was edited and at least
\* MaxAge has passed since (no cache lifetime of the model is longer)
\* returns the code the edited sheet gives.
C29_LookupSeesEditedSheet ==
    [][(/\ last' # last /\ last'.cmd = "lookup"
        /\ zip_sheet.at >= 0
        /\ now >= zip_sheet.at + MaxAge)
       => last'.rid = lookup_in(ZipPairs(zip_sheet.rows, << >>), last'.text)]_vars

\* the titles a resolution returned: the resolved one or the candidates
ReturnedTitles == (IF last.rid = << >> THEN {} ELSE {last.rid}) \cup Range(last.books)

C26_NormalizeIdempotent ==
    last.cmd = "normalize" => normalize_for_match(last.rid) = last.rid

C26_Witness ==
    /\ last.cmd = "normalize"
    /\ last.text = <<"A"," ","b","_","1">>
    /\ last.rid = <<"a","b","1">>

\* row `new` is row `old` but for its note, shipDate, trackingNumber,
\* handler and status cells
SameButShippingCells(old, new) ==
    new = [old EXCEPT !.note = new.note, !.shipDate = new.shipDate, !.track = new.track,
                      !.handler = new.handler, !.status = new.status, !.ocr = new.ocr]

\* C27: a confirmed cancellation, an OCR write and an undo-shipment leave
\* the rows of the sheet in place and change at most the note, shipDate,
\* trackingNumber, handler and status cells of any row.
C27_OnlyShippingCellsWritten ==
    [][(\/ \E h \in inflight : ShipWrite(h)
        \/ /\ nevents' = nevents + 1
           /\ last'.cmd \in {"answer", "unship"}
           /\ \E m \in Messages :
                 AnswerCancelYes(last'.u, m) \/ DeleteShip(last'.u, m))
       => /\ Len(sheet') = Len(sheet)
          /\ \A k \in 1..Len(sheet) : SameButShippingCells(sheet[k], sheet'[k])]_vars

C27_Witness ==
    /\ last.cmd = "unship"
    /\ last.out = "ok"
    /\ \E k \in 1..Len(sheet) :
          /\ sheet[k].rid = last.rid
          /\ sheet[k].status = Pending
          /\ \E j \in 1..Len(sheet[k].note) : sheet[k].note[j].tag = "unshipped"

\* a row no OCR write has shipped, or whose shipment was undone: status
\* Pending or Deleted
Unshipped(r) == r.status \in {Pending, Deleted} /\ ~r.ocr

\* C28: a row the behaviour wrote that no OCR write has shipped, or whose
\* shipment was undone, has empty shipDate, trackingNumber and handler.
C28_UnshippedCellsEmpty ==
    \A k \in 1..Len(sheet) :
       (sheet[k].ev > 0 /\ Unshipped(sheet[k]))
       => sheet[k].shipDate = << >> /\ sheet[k].track = << >> /\ sheet[k].handler = ""

\* row `new` is row `old`, as it was or with the cells of a confirmed cancel
\* written
KeptOrDeleted(old, new) ==
    \/ new = old
    \/ /\ last'.cmd = "answer"
       /\ new = [old EXCEPT !.note = new.note, !.handler = new.handler,
                            !.status = Deleted]

\* C30: when a sheet call of an order or of a confirmed cancel raises, the
\* rows written before stay where they are and as they are (no row is
\* removed or restored), no handler of that event is left to write, and no
\* row of that event is added afterwards.
C30_NoRollbackNoRetry ==
    [][/\ (last' # last /\ last'.out = "error" /\ last'.cmd \in {"order", "answer"})
            => /\ \A h \in inflight' : h.ev # last'.ev
               /\ Len(sheet') = Len(sheet)
               /\ \A k \in 1..Len(sheet) : KeptOrDeleted(sheet[k], sheet'[k])
       /\ (last.out = "error" /\ last.cmd \in {"order", "answer"})
            => Len(RowsOfEvent(sheet', last.ev)) <= Len(RowsOfEvent(sheet, last.ev))]_vars

\* C30, the case: an order of two books failed after its first row
C30_Witness ==
    /\ last.out = "error"
    /\ last.cmd = "order"
    /\ Len(last.books) = 2
    /\ Len(RowsOfEvent(sheet, last.ev)) = 1
    /\ \A h \in inflight : h.ev # last.ev

\* C31: when a sheet call of an order or of a confirmed action has raised,
\* the user is sent a failure reply that carries a code.
C31_FailureReplyHasCode ==
    (last.out = "error" /\ last.cmd \in {"order", "answer"})
    => reply_on_exception(last.cmd) = "coded failure"

\* the number of leftovers of result r that carry field f ("rid": an
\* identifier without number, "num": a number no identifier got)
LeftoverCount(r, f) == Len(SelectSeq(r.leftovers, LAMBDA x : f \in DOMAIN x))

\* C32: every identifier occurrence and every tracking-token occurrence of
\* the text is in exactly one pair or in the leftovers, and the number of
\* pairs is the smaller of the two occurrence counts.
C32_EveryOccurrenceAccounted ==
    (last.cmd = "image" /\ last.out = "read")
    => LET r == pair_ids_with_numbers(last.text)
           nrids == Len(Occurrences(last.text, 1, TRUE))
           nnums == Len(Occurrences(last.text, 1, FALSE))
       IN  /\ Len(r.pairs) = IF nrids < nnums THEN nrids ELSE nnums
           /\ LeftoverCount(r, "rid") = nrids - Len(r.pairs)
           /\ LeftoverCount(r, "num") = nnums - Len(r.pairs)

\* C33: all rows that carry one record id have the same status.
C33_OneStatusPerRecord ==
    \A j, k \in 1..Len(sheet) :
       (IsRid(sheet[j].rid) /\ sheet[j].rid = sheet[k].rid)
       => sheet[j].status = sheet[k].status

\* row `old` after an undo of its shipment as C34 describes it
Undone(old) ==
    [old EXCEPT !.shipDate = << >>, !.track = << >>, !.handler = "", !.status = Pending,
                !.note = Append(@, [tag |-> "unshipped", at |-> now]), !.ocr = FALSE]

\* C34: an undo-shipment that finds a row clears shipDate, trackingNumber
\* and handler of that row, sets its status to Pending and appends the dated
\* undo tag to its note, and changes no other row; one that finds no row
\* changes nothing.
C34_UndoClearsShipment ==
    [][(nevents' = nevents + 1 /\ last'.cmd = "unship" /\ last'.out \in {"ok", "notfound"})
       => IF last'.out = "notfound" THEN sheet' = sheet
          ELSE /\ Len(sheet') = Len(sheet)
               /\ \E k \in 1..Len(sheet) :
                     /\ sheet'[k] = Undone(sheet[k])
                     /\ \A j \in 1..Len(sheet) : j # k => sheet'[j] = sheet[j]]_vars

\* C35: a cancellation is stored in the slot only for a requesting user
\* whose display name is the createdBy of the row the request found; and a
\* confirmation sets to Deleted only rows whose createdBy is the display
\* name the requesting user had.
C35_OnlyCreatorCancels ==
    [][\A u \in Users :
         /\ (/\ nevents' = nevents + 1 /\ last'.u = u
              /\ last'.cmd = "cancel" /\ last'.out = "asked")
             => \E m \in Messages :
                   /\ CancelRequest(u, m)
                   /\ sheet[find_latest_order(sheet, m.target.name, m.target.phone)].by
                        = display_name(u)
         /\ (/\ nevents' = nevents + 1 /\ last'.u = u
              /\ last'.cmd = "answer" /\ last'.out = "cancelled")
             => \A k \in 1..Len(sheet) :
                   (sheet'[k].status = Deleted /\ sheet[k].status # Deleted)
                   => sheet[k].by = pending[u].operator]_vars

\* C36: a text that is no command and no answer to a taken slot is ignored:
\* sheet, stock, insertions, slots and OCR sessions stay as they are and the
\* handler ends without a reply (outcome "none"; "unauthorized" is the
\* outcome of a text that _ensure_authorized answered with its notice).
C36_OtherTextIgnored ==
    [][\A u \in Users : \A m \in Messages :
         (/\ nevents' = nevents + 1 /\ last'.u = u
          /\ m.cmd = "text" /\ ~AnswersPending(u, m)
          /\ handle_text_message(u, m))
         => /\ UNCHANGED <<sheet, stock, inflight, pending, ocr_session>>
            /\ last'.out = "none"]_vars

\* the (title, alias) pairs of at least 4 characters that step 3 finds in
\* the text: those of the books left after the digit narrowing
ContainedAliases(text) ==
    LET flat == FlattenAliases(IF DigitRuns(text) # << >>
                               THEN NarrowBooks(book_cache, DigitRuns(text))
                               ELSE book_cache)
    IN  {flat[k] : k \in {j \in 1..Len(flat) :
                            /\ Len(flat[j].norm) >= 4
                            /\ Contains(normalize_for_match(text), flat[j].norm)}}

\* C37: the title the containment step returns owns an alias that is in the
\* text and that no alias of another title found in the text is longer than.
C37_LongerAliasWins ==
    (last.cmd = "resolve" /\ last.out = "contain")
    => \E a \in ContainedAliases(last.text) :
          /\ a.title = last.rid
          /\ \A b \in ContainedAliases(last.text) : Len(b.norm) <= Len(a.norm)

\* the address with the code of the geo lookup in front, unless the lookup
\* finds none or the address begins with three digits
Prefixed(a) ==
    IF /\ lookup_zip(a) # << >>
       /\ ~(Len(a) >= 3 /\ {a[1], a[2], a[3]} \subseteq Digits)
    THEN lookup_zip(a) \o a ELSE a

\* C38: the address of a row built for a new order is the code of the geo
\* lookup followed by the address of the order when the lookup returns a code
\* and the address does not begin with a postal-code digit run, the address
\* of the order otherwise; building a row from the stored address stores the
\* same address again.
C38_AddressPrefixedOnce ==
    [][\A h \in inflight :
          InsertDimension(h)
          => \A g \in inflight' :
                g.ev = h.ev
                => /\ g.row.addr = Prefixed(h.parsed.address)
                   /\ build_insert_row([h.parsed EXCEPT !.address = g.row.addr],
                                       display_name(h.u), h.rid, Head(h.todo),
                                       h.ev).addr = g.row.addr]_vars

\* a row of a new order stands in the sheet with the code in front of its
\* address, and one whose address came with a code stands as it came
C38_Witness ==
    /\ \E k \in 1..Len(sheet) :
          sheet[k].ev > 0 /\ sheet[k].addr = <<"1","0","1","c","d","1">>
    /\ \E k \in 1..Len(sheet) :
          sheet[k].ev > 0 /\ sheet[k].addr = <<"1","0","0","c">>

\* the words of a line: what stands between colons and spaces
WordsOf(ln) == SplitOn(ln, {":", ";", " "})

\* the line has a key with the word of the name, phone, address or book
\* field in it
FieldLine(ln) ==
    /\ Range(ln) \cap {":", ";"} # {}
    /\ WordsOf(ln) # << >>
    /\ Range(WordsOf(ln)[1]) \cap {"N", "P", "D", "K"} # {}

\* C39: every word of every non-empty line below the command line that is
\* not a name, phone, address or book line stands in the note of the draft.
C39_NoLineDropped ==
    last.cmd = "parse"
    => \A i \in 2..Len(last.books) :
          ~FieldLine(last.books[i])
          => \A k \in 1..Len(WordsOf(last.books[i])) :
                Contains(last.rid, WordsOf(last.books[i])[k])

====
